---- MODULE Spec2Model ----
(***************************************************************************)
(* NCC-05 (ncc-05-js): publishing and resolving identity-bound locator     *)
(* records of kind 30058 over untrusted Nostr relays.                      *)
(*                                                                         *)
(* The cryptography of nostr-tools is modelled symbolically: a secret key  *)
(* is <<"sk", name>>, its public key is the name, a conversation key is    *)
(* the unordered pair of the two public keys, a NIP-44 ciphertext can be   *)
(* opened with the conversation key it was made with and with no other,    *)
(* and a signature verifies only for the signer's public key over the      *)
(* exact id and fields that were signed.                                   *)
(***************************************************************************)
EXTENDS Integers, Sequences, FiniteSets, TLC

VARIABLES
    now,         \* Math.floor(Date.now() / 1000): the wall clock in whole seconds
    relayStore,  \* relay url -> the kind-30058 events the relay holds
    relayLists,  \* the kind-10002 events held by the bootstrap relays
    cache,       \* NCC05Resolver.cache: cache key -> entry (payload, expires)
    calls,       \* resolve / resolveLatest invocations: call id -> call frame
    published,   \* log of the publish / publishWrapped calls that returned an event
    pubCall,     \* the publish / publishWrapped call that waits in _publishToRelays
    resolver,    \* NCC05Resolver: _ownPool, pool, whether a urlTransformer is
                 \* configured, and the number of close() calls made on it
    publisher,   \* NCC05Publisher: _ownPool, pool, number of close() calls
    pools,       \* relay pool -> the relay lists its close() was called with
    selected,    \* a selectEndpoints call: its argument before and after, its result
    peers,       \* P2PNode.peers: pubkey -> the WebSocket registered for it
    peerStatus,  \* P2PNode.peerStatus: pubkey -> PENDING or CONNECTED
    sockets,     \* the WebSockets handleConnection was called with: socket id ->
                 \* state, direction, the handler's remotePubkey, the number of
                 \* frames written to it and of data frames received on it
    emitted,     \* the events the P2PNode emitted, in order
    acceptCalls, \* the pubkeys acceptPeer has been called with
    lastCall     \* the last of acceptPeer, sendMessage and broadcast called on
                 \* the P2PNode: its argument and how it ended

nodeVars == <<peers, peerStatus, sockets, emitted, acceptCalls, lastCall>>

vars == <<now, relayStore, relayLists, cache, calls, published, pubCall,
         resolver, publisher, pools, selected, nodeVars>>

-----------------------------------------------------------------------------
(* Bounds of the model *)

MaxNow == 2       \* the clock stops advancing here
MaxEvents == 2    \* events the key owners publish altogether
MaxResults == 2   \* length of the event list one relay query delivers
MaxRelayList == 2 \* length of the relay list handed to publish / publishWrapped
MaxCloses == 1    \* close() calls on the resolver, and on the publisher
MaxEndpoints == 3 \* length of the endpoint lists handed to selectEndpoints
MaxData == 1      \* data frames a peer sends on one connection
MaxSent == 2      \* frames a P2PNode writes to one socket, the handshake included

-----------------------------------------------------------------------------
(* Identities, relays and inputs *)

Keys == {"A", "B", "C"}
Relays == {"r1", "r2"}
bootstrapRelays == <<"r1">>
Identifiers == {"addr", "alt"}
Calls == {1, 2}

NoSigner == <<"sk", "none">>
SecretKey(name) == <<"sk", name>>

\* nostr-tools getPublicKey: the public key of a secret key
getPublicKey(sk) == sk[2]

\* LocalSigner.getConversationKey / nip44.getConversationKey: ECDH is symmetric
getConversationKey(sk, peerPubkey) == {getPublicKey(sk), peerPubkey}

\* generateSecretKey() as called by publishWrapped: a fresh session secret
SessionSecrets == {<<"sk", "s1">>}

\* Key inputs that are strings: hex text of `digits` digits whose two-digit
\* chunks are the bytes of `bytes`, the bech32 text nsec1... of a key, and
\* text that is neither; NoKeyInput is a call made with a Uint8Array, a
\* signer object or no key
HexText(digits, bytes) == [form |-> "hexkey", digits |-> digits, bytes |-> bytes]
Nsec(sk) == [form |-> "nsec", of |-> sk]
NotAKey == [form |-> "other"]
NoKeyInput == [form |-> "none"]

\* ensureUint8Array on a string: /^[0-9a-fA-F]+$/ decides, then the chunks of
\* one or two digits are the bytes
ensureUint8Array(key) ==
    IF key.form = "hexkey"
    THEN [status |-> "ok", sk |-> key.bytes]
    ELSE [status |-> "ArgumentError", sk |-> NoSigner]

\* toSigner on a string: new LocalSigner(ensureUint8Array(input))
toSigner(input) == ensureUint8Array(input)

-----------------------------------------------------------------------------
(* Strings: JSON text, NIP-44 ciphertext, hex text *)

\* JSON.stringify(payload)
JsonStringify(payload) == [form |-> "json", value |-> payload]

\* Array.from(sessionKey).map(b => b.toString(16).padStart(2, '0')).join('')
HexEncode(sk) == [form |-> "hex", of |-> sk]

\* symmetricKeyHex.match(/.{1,2}/g)!.map(byte => parseInt(byte, 16))
HexDecode(text) == text.of

\* nip44.encrypt: base64 text that only the same conversation key opens
nip44Encrypt(plaintext, conversationKey) ==
    [form |-> "nip44", key |-> conversationKey, plain |-> plaintext]

DecryptFailed == [form |-> "failed"]

\* nip44.decrypt: throws (DecryptFailed) on anything but a ciphertext made
\* with this conversation key
nip44Decrypt(text, conversationKey) ==
    IF text.form = "nip44" /\ text.key = conversationKey
    THEN text.plain
    ELSE DecryptFailed

\* JSON.stringify(wrappedContent) of { ciphertext, wraps }
WrappedStringify(ciphertext, wraps) ==
    [form |-> "wrapped", ciphertext |-> ciphertext, wraps |-> wraps]

\* JSON text written by other software: the members named in `types` have
\* another JSON type than NCC05Payload declares for them (a ttl of 1 with the
\* type "string" is the text "ttl":"1", endpoints <<>> with the type "object"
\* is the text "endpoints":{})
JsonDocument(value, types) == [form |-> "json", value |-> value, types |-> types]

\* Text that opens with a brace and is no JSON, and text that is neither
BrokenJson == [form |-> "brokenjson"]
PlainText == [form |-> "plain"]

\* The JSON types NCC05Payload declares for its members
DeclaredType(member) ==
    CASE member \in {"v", "ttl", "updated_at"} -> "number"
      [] member \in {"endpoints", "caps"} -> "array"
      [] OTHER -> "string"

\* typeof / Array.isArray of a member of JSON.parse(text): "undefined" when
\* the object has no such member
JsonType(text, member) ==
    IF member \notin DOMAIN text.value
    THEN "undefined"
    ELSE IF "types" \in DOMAIN text /\ member \in DOMAIN text.types
         THEN text.types[member]
         ELSE DeclaredType(member)

\* content.startsWith('{'): JSON text does, base64 and hex text do not
StartsWithBrace(text) == text.form \in {"json", "wrapped", "brokenjson"}

\* The texts JSON.stringify(payload) writes between two quotation marks: the
\* keys and the string values of the object (a quotation mark inside a value
\* is written with a backslash before it)
QuotedStrings(payload) ==
    DOMAIN payload
        \cup (IF "caps" \in DOMAIN payload
              THEN {payload.caps[i] : i \in 1..Len(payload.caps)} ELSE {})
        \cup (IF "notes" \in DOMAIN payload THEN {payload.notes} ELSE {})
        \cup (IF "endpoints" \in DOMAIN payload
              THEN UNION {DOMAIN payload.endpoints[i]
                              \cup {payload.endpoints[i].type, payload.endpoints[i].url,
                                    payload.endpoints[i].family} :
                          i \in 1..Len(payload.endpoints)}
              ELSE {})

\* content.includes('"' + word + '"'): in the JSON text of a payload the
\* quoted strings, in the JSON text of { ciphertext, wraps } its two keys
\* and the recipients; base64 and hex text hold no quotation mark
IncludesQuoted(text, word) ==
    CASE text.form = "json" -> word \in QuotedStrings(text.value)
      [] text.form = "wrapped" -> word \in {"ciphertext", "wraps"} \cup DOMAIN text.wraps
      [] OTHER -> FALSE

\* content.includes('"wraps"')
IncludesWraps(text) == IncludesQuoted(text, "wraps")

\* content.includes('"ciphertext"')
IncludesCiphertext(text) == IncludesQuoted(text, "ciphertext")

\* (JSON.parse(content) as WrappedContent).wraps is an object
HasWraps(text) == text.form = "wrapped"

-----------------------------------------------------------------------------
(* Payloads and events *)

Endpoint(url) == [type |-> "tcp", url |-> url, priority |-> 1, family |-> "ipv4"]

\* NCC05Payload
Payload(updated_at, ttl, url) ==
    [v |-> 1, ttl |-> ttl, updated_at |-> updated_at, endpoints |-> <<Endpoint(url)>>]

\* NCC05Payload with its optional members caps and notes
PayloadWith(updated_at, ttl, url, caps, notes) ==
    [v |-> 1, ttl |-> ttl, updated_at |-> updated_at, endpoints |-> <<Endpoint(url)>>,
     caps |-> caps, notes |-> notes]

NoPayload == [v |-> 0, ttl |-> 0, updated_at |-> 0, endpoints |-> <<>>]

\* Event ids: hex text, here two hex digits given by their values
Ids == {<<0, 10>>, <<10, 0>>, <<10, 10>>}

\* The tags NCC05Publisher builds: [['d', identifier]] and, for a private
\* locator, [TAG_PRIVATE, 'true'] pushed behind it
PublisherTags(identifier, privateLocator) ==
    IF privateLocator
    THEN <<<<"d", identifier>>, <<"private", "true">>>>
    ELSE <<<<"d", identifier>>>>

\* UnsignedEvent: what the id is the hash of
Body(e) ==
    [kind |-> e.kind, created_at |-> e.created_at, pubkey |-> e.pubkey,
     tags |-> e.tags, content |-> e.content]

\* LocalSigner.signEvent / finalizeEvent: the pubkey is overwritten with the
\* signer's, id is the hash of the body, sig signs that id
signEvent(template, sk, id) ==
    LET body == [template EXCEPT !.pubkey = getPublicKey(sk)]
    IN  [id |-> id, kind |-> body.kind, created_at |-> body.created_at,
         pubkey |-> body.pubkey, tags |-> body.tags, content |-> body.content,
         sig |-> [by |-> getPublicKey(sk), id |-> id, body |-> body]]

\* nostr-tools verifyEvent: the id is the hash of the fields, and the
\* signature over the id verifies for event.pubkey
verifyEvent(e) ==
    /\ e.sig.id = e.id
    /\ e.sig.body = Body(e)
    /\ e.sig.by = e.pubkey

AllEvents == UNION {relayStore[r] : r \in Relays}

\* The id of the one relay list event (kind 10002) of the model
RelayListId == <<0, 0>>

\* getEventHash is a function and collision free: a body that was hashed
\* before has the id it had, a new body has an id no other body has
HashOf(body, id) ==
    \A e \in AllEvents : (e.sig.body = body) <=> (e.sig.id = id)

-----------------------------------------------------------------------------
(* NCC05Publisher: building the event *)

\* A publish that never reads recipientPubkey: what is not public is
\* encrypted to the publisher itself
PublishContentToSelf(sk, payload, recipientPubkey, public) ==
    IF public
    THEN JsonStringify(payload)
    ELSE nip44Encrypt(JsonStringify(payload),
                      getConversationKey(sk, getPublicKey(sk)))

\* A publish that never encrypts
PublishContentPlain(sk, payload, recipientPubkey, public) ==
    JsonStringify(payload)

\* A publish that leaves the record in plaintext when it is meant for the
\* publisher alone
PublishContentSelfPlain(sk, payload, recipientPubkey, public) ==
    IF public \/ recipientPubkey = ""
    THEN JsonStringify(payload)
    ELSE nip44Encrypt(JsonStringify(payload),
                      getConversationKey(sk, recipientPubkey))

\* A publish that looks at recipientPubkey before it looks at options.public
PublishContentRecipientFirst(sk, payload, recipientPubkey, public) ==
    IF recipientPubkey # ""
    THEN nip44Encrypt(JsonStringify(payload),
                      getConversationKey(sk, recipientPubkey))
    ELSE IF public
         THEN JsonStringify(payload)
         ELSE nip44Encrypt(JsonStringify(payload),
                           getConversationKey(sk, getPublicKey(sk)))

\* publish: content is the JSON text, encrypted under the conversation key
\* with recipientPubkey (or with the publisher itself) unless options.public
PublishContent(sk, payload, recipientPubkey, public) ==
    IF public
    THEN JsonStringify(payload)
    ELSE LET encryptionTarget ==
                 IF recipientPubkey # "" THEN recipientPubkey ELSE getPublicKey(sk)
         IN  nip44Encrypt(JsonStringify(payload),
                          getConversationKey(sk, encryptionTarget))

\* publish: the event handed to signEvent and then to the relays
PublishEvent(sk, payload, identifier, recipientPubkey, public, privateLocator, id) ==
    signEvent([kind |-> 30058, created_at |-> now, pubkey |-> getPublicKey(sk),
               tags |-> PublisherTags(identifier, privateLocator),
               content |-> PublishContent(sk, payload, recipientPubkey, public)],
              sk, id)

\* A publishWrapped that wraps the session key for every recipient under the
\* publisher's conversation key with itself
WrappedContentOwnKey(sk, sessionKey, recipients, payload) ==
    LET selfConversation == getConversationKey(sessionKey, getPublicKey(sessionKey))
        ciphertext == nip44Encrypt(JsonStringify(payload), selfConversation)
        wraps == [rPk \in recipients |->
                     nip44Encrypt(HexEncode(sessionKey),
                                  getConversationKey(sk, getPublicKey(sk)))]
    IN  WrappedStringify(ciphertext, wraps)

\* publishWrapped: the payload under a fresh session key, the session key
\* (as hex text) once per recipient under the conversation key with it
WrappedContent(sk, sessionKey, recipients, payload) ==
    LET selfConversation == getConversationKey(sessionKey, getPublicKey(sessionKey))
        ciphertext == nip44Encrypt(JsonStringify(payload), selfConversation)
        wraps == [rPk \in recipients |->
                     nip44Encrypt(HexEncode(sessionKey), getConversationKey(sk, rPk))]
    IN  WrappedStringify(ciphertext, wraps)

PublishWrappedEvent(sk, sessionKey, recipients, payload, identifier, privateLocator, id) ==
    signEvent([kind |-> 30058, created_at |-> now, pubkey |-> getPublicKey(sk),
               tags |-> PublisherTags(identifier, privateLocator),
               content |-> WrappedContent(sk, sessionKey, recipients, payload)],
              sk, id)

-----------------------------------------------------------------------------
(* NCC05Resolver: decryption, validation, selection *)

Text(status, text) == [status |-> status, text |-> text]

\* A dispatch that takes every content that is not wrapped for ciphertext when
\* a signer is supplied
decryptEventContentAlwaysDecrypts(event, hexPubkey, signer) ==
    LET content == event.content
        isWrapped == /\ IncludesWraps(content)
                     /\ IncludesCiphertext(content)
                     /\ StartsWithBrace(content)
    IN  IF isWrapped
        THEN IF signer = NoSigner
             THEN Text("null", content)
             ELSE LET myPk == getPublicKey(signer)
                  IN  IF ~HasWraps(content)
                      THEN Text("DecryptionError", content)
                      ELSE IF myPk \notin DOMAIN content.wraps
                      THEN Text("null", content)
                      ELSE LET conversationKey == getConversationKey(signer, hexPubkey)
                               symmetricKeyHex ==
                                   nip44Decrypt(content.wraps[myPk], conversationKey)
                           IN  IF symmetricKeyHex.form # "hex"
                               THEN Text("DecryptionError", content)
                               ELSE LET symmetricKey == HexDecode(symmetricKeyHex)
                                        sessionConversationKey ==
                                            getConversationKey(symmetricKey,
                                                               getPublicKey(symmetricKey))
                                        plain == nip44Decrypt(content.ciphertext,
                                                              sessionConversationKey)
                                    IN  IF plain = DecryptFailed
                                        THEN Text("DecryptionError", content)
                                        ELSE Text("ok", plain)
        ELSE IF signer # NoSigner
             THEN LET conversationKey == getConversationKey(signer, hexPubkey)
                      plain == nip44Decrypt(content, conversationKey)
                  IN  IF plain = DecryptFailed
                      THEN Text("DecryptionError", content)
                      ELSE Text("ok", plain)
             ELSE Text("ok", content)

\* decryptEventContent: "ok" with the content, "null", or "DecryptionError"
decryptEventContent(event, hexPubkey, signer) ==
    LET content == event.content
        isWrapped == /\ IncludesWraps(content)
                     /\ IncludesCiphertext(content)
                     /\ StartsWithBrace(content)
    IN  IF isWrapped
        THEN IF signer = NoSigner
             THEN Text("null", content)
             ELSE LET myPk == getPublicKey(signer)
                  IN  IF ~HasWraps(content)
                      THEN Text("DecryptionError", content)
                      ELSE IF myPk \notin DOMAIN content.wraps
                      THEN Text("null", content)
                      ELSE LET conversationKey == getConversationKey(signer, hexPubkey)
                               symmetricKeyHex ==
                                   nip44Decrypt(content.wraps[myPk], conversationKey)
                           IN  IF symmetricKeyHex.form # "hex"
                               THEN Text("DecryptionError", content)
                               ELSE LET symmetricKey == HexDecode(symmetricKeyHex)
                                        sessionConversationKey ==
                                            getConversationKey(symmetricKey,
                                                               getPublicKey(symmetricKey))
                                        plain == nip44Decrypt(content.ciphertext,
                                                              sessionConversationKey)
                                    IN  IF plain = DecryptFailed
                                        THEN Text("DecryptionError", content)
                                        ELSE Text("ok", plain)
        ELSE IF signer # NoSigner /\ ~StartsWithBrace(content)
             THEN LET conversationKey == getConversationKey(signer, hexPubkey)
                      plain == nip44Decrypt(content, conversationKey)
                  IN  IF plain = DecryptFailed
                      THEN Text("DecryptionError", content)
                      ELSE Text("ok", plain)
             ELSE Text("ok", content)

\* event.tags.find(t => t[0] === name)?.[1]
TagValue(tags, name) ==
    LET hits == {i \in 1..Len(tags) : tags[i][1] = name}
    IN  IF hits = {}
        THEN [has |-> FALSE, value |-> ""]
        ELSE [has |-> TRUE,
              value |-> tags[CHOOSE i \in hits : \A j \in hits : i <= j][2]]

\* parseInt(text, 10) of the decimal texts the model uses; NaN otherwise
ParseInt(text) ==
    CASE text = "0" -> [finite |-> TRUE, n |-> 0]
      [] text = "1" -> [finite |-> TRUE, n |-> 1]
      [] text = "2" -> [finite |-> TRUE, n |-> 2]
      [] text = "3" -> [finite |-> TRUE, n |-> 3]
      [] OTHER -> [finite |-> FALSE, n |-> 0]

\* An expiry that does not read the expiration tag
RecordExpiryIgnoresTag(event, payload) == payload.updated_at + payload.ttl

\* buildPayloadRecord, the expiry: Math.min(normalizedExpiry, calculatedExpiry)
\* with normalizedExpiry = Infinity for no tag or a value that is not finite
RecordExpiry(event, payload) ==
    LET expirationTag == TagValue(event.tags, "expiration")
        explicitExpiry == IF expirationTag.has
                          THEN ParseInt(expirationTag.value)
                          ELSE [finite |-> FALSE, n |-> 0]
        calculatedExpiry == payload.updated_at + payload.ttl
    IN  IF explicitExpiry.finite /\ explicitExpiry.n < calculatedExpiry
        THEN explicitExpiry.n
        ELSE calculatedExpiry

NoEvent == [id |-> <<>>]

Record(status, event, payload, expiry) ==
    [status |-> status, event |-> event, payload |-> payload, expiry |-> expiry]

\* A validation whose JSON.parse is outside the try block: text that does not
\* parse leaves it as a SyntaxError
buildPayloadRecordParseThrows(event, hexPubkey, signer) ==
    LET content == decryptEventContent(event, hexPubkey, signer)
    IN  IF content.status # "ok"
        THEN Record(content.status, event, NoPayload, 0)
        ELSE IF content.text.form # "json"
             THEN Record("RelayError", event, NoPayload, 0)
             ELSE IF JsonType(content.text, "endpoints") # "array"
             THEN Record("null", event, NoPayload, 0)
             ELSE IF \/ JsonType(content.text, "updated_at") # "number"
                     \/ JsonType(content.text, "ttl") # "number"
             THEN Record("null", event, NoPayload, 0)
             ELSE LET payload == content.text.value
                  IN  Record("ok", event, payload, RecordExpiry(event, payload))

\* buildPayloadRecord: "ok" with the PayloadRecord, "null", or "DecryptionError"
buildPayloadRecord(event, hexPubkey, signer) ==
    LET content == decryptEventContent(event, hexPubkey, signer)
    IN  IF content.status # "ok"
        THEN Record(content.status, event, NoPayload, 0)
        ELSE IF content.text.form # "json"
             THEN Record("null", event, NoPayload, 0)
             ELSE IF JsonType(content.text, "endpoints") # "array"
             THEN Record("null", event, NoPayload, 0)
             ELSE IF \/ JsonType(content.text, "updated_at") # "number"
                     \/ JsonType(content.text, "ttl") # "number"
             THEN Record("null", event, NoPayload, 0)
             ELSE LET payload == content.text.value
                  IN  Record("ok", event, payload, RecordExpiry(event, payload))

\* a.id.localeCompare(b.id) on hex text: -1, 0 or 1 by the first digit that differs
RECURSIVE localeCompare(_, _)
localeCompare(a, b) ==
    IF a = <<>> /\ b = <<>> THEN 0
    ELSE IF a = <<>> THEN -1
    ELSE IF b = <<>> THEN 1
    ELSE IF Head(a) < Head(b) THEN -1
    ELSE IF Head(a) > Head(b) THEN 1
    ELSE localeCompare(Tail(a), Tail(b))

\* A comparator that puts the oldest event first
CompareEventsOldestFirst(a, b) ==
    IF b.created_at # a.created_at
    THEN a.created_at - b.created_at
    ELSE localeCompare(a.id, b.id)

\* A comparator that leaves events of one second in their arrival order
CompareEventsNoTieBreak(a, b) ==
    IF b.created_at # a.created_at
    THEN b.created_at - a.created_at
    ELSE 0

\* The comparator handed to sort: newest first, then the smaller id
CompareEvents(a, b) ==
    IF b.created_at # a.created_at
    THEN b.created_at - a.created_at
    ELSE localeCompare(a.id, b.id)

\* Array.prototype.sort (stable): x goes behind every element it does not precede
RECURSIVE InsertSorted(_, _)
InsertSorted(x, sorted) ==
    IF sorted = <<>> THEN <<x>>
    ELSE IF CompareEvents(x, Head(sorted)) < 0
         THEN <<x>> \o sorted
         ELSE <<Head(sorted)>> \o InsertSorted(x, Tail(sorted))

RECURSIVE SortEvents(_)
SortEvents(events) ==
    IF events = <<>> THEN <<>>
    ELSE InsertSorted(events[Len(events)], SortEvents(SubSeq(events, 1, Len(events) - 1)))

\* A filter that trusts the relay: the author is compared, nothing is verified
IsValidEventUnverified(e, hexPubkey) == e.pubkey = hexPubkey

\* .filter(e => e.pubkey === hexPubkey && verifyEvent(e))
IsValidEvent(e, hexPubkey) == e.pubkey = hexPubkey /\ verifyEvent(e)

ValidEvents(result, hexPubkey) ==
    SortEvents(SelectSeq(result, LAMBDA e : IsValidEvent(e, hexPubkey)))

\* fetchFreshestRecord once the query has delivered `result`
FreshestRecord(result, hexPubkey, signer) ==
    IF result = <<>>
    THEN Record("null", NoEvent, NoPayload, 0)
    ELSE LET validEvents == ValidEvents(result, hexPubkey)
         IN  IF validEvents = <<>>
             THEN Record("null", NoEvent, NoPayload, 0)
             ELSE buildPayloadRecord(validEvents[1], hexPubkey, signer)

\* The urlTransformer of the model, where one is configured: it rewrites the
\* url of an endpoint into a proxy url, as the .onion to SOCKS rewriting does
urlTransformer(endpoint) == [endpoint EXCEPT !.url = <<"socks5h", @>>]

\* applyUrlTransformer: the payload itself with no urlTransformer configured,
\* else a copy whose endpoints are the transformer's results
applyUrlTransformer(payload) ==
    IF ~resolver.urlTransformer
    THEN payload
    ELSE [payload EXCEPT !.endpoints =
              [i \in 1..Len(payload.endpoints) |-> urlTransformer(payload.endpoints[i])]]

\* What a call returned (status "payload" or "null") or threw (the error's
\* name), the event the payload was taken from, and how it came about:
\* "hit" (served from the cache), "stored" (fetched and cached), "expired"
\* (fetched, past its expiry, not cached), "none"
Outcome(status, payload, event, how) ==
    [status |-> status, payload |-> payload, event |-> event, how |-> how]

\* A resolveLatest that compares the d tag as resolve does
ResolveOutcomeLatestChecksD(call, record) ==
    IF record.status # "ok"
    THEN Outcome(record.status, NoPayload, NoEvent, "none")
    ELSE LET tagIdentifier == TagValue(record.event.tags, "d")
         IN  IF ~(tagIdentifier.has /\ tagIdentifier.value = call.identifier)
             THEN Outcome("null", NoPayload, NoEvent, "none")
             ELSE LET transformedPayload == applyUrlTransformer(record.payload)
                  IN  IF call.now > record.expiry
                      THEN IF call.strict
                           THEN Outcome("null", NoPayload, NoEvent, "expired")
                           ELSE Outcome("payload", transformedPayload, record.event, "expired")
                      ELSE Outcome("payload", transformedPayload, record.event, "stored")

\* A resolve that treats a record past its expiry like a fresh one
ResolveOutcomeCachesExpired(call, record) ==
    IF record.status # "ok"
    THEN Outcome(record.status, NoPayload, NoEvent, "none")
    ELSE LET tagIdentifier == TagValue(record.event.tags, "d")
         IN  IF call.op = "resolve"
                /\ ~(tagIdentifier.has /\ tagIdentifier.value = call.identifier)
             THEN Outcome("null", NoPayload, NoEvent, "none")
             ELSE Outcome("payload", applyUrlTransformer(record.payload),
                          record.event, "stored")

\* resolve / resolveLatest after fetchFreshestRecord returned `record`
ResolveOutcome(call, record) ==
    IF record.status # "ok"
    THEN Outcome(record.status, NoPayload, NoEvent, "none")
    ELSE LET tagIdentifier == TagValue(record.event.tags, "d")
         IN  IF call.op = "resolve"
                /\ ~(tagIdentifier.has /\ tagIdentifier.value = call.identifier)
             THEN Outcome("null", NoPayload, NoEvent, "none")
             ELSE LET transformedPayload == applyUrlTransformer(record.payload)
                  IN  IF call.now > record.expiry
                      THEN IF call.strict
                           THEN Outcome("null", NoPayload, NoEvent, "expired")
                           ELSE Outcome("payload", transformedPayload, record.event, "expired")
                      ELSE Outcome("payload", transformedPayload, record.event, "stored")

\* `${hexPubkey}:${identifier}` and `${hexPubkey}:latest`
CacheKey(op, hexPubkey, identifier) ==
    IF op = "resolve" THEN <<hexPubkey, ":", identifier>> ELSE <<hexPubkey, ":", "latest">>

\* A cache test that is off by one: an entry is served in the second it expires
CacheFreshInclusive(entry, t) == entry.expires >= t

\* cached && cached.expires > now
CacheFresh(entry, t) == entry.expires > t

-----------------------------------------------------------------------------
(* selectEndpoints *)

\* A family score that ranks ipv4 before ipv6
familyScoreIpv4First(e) ==
    IF "family" \notin DOMAIN e THEN 4
    ELSE CASE e.family = "onion" -> 1
           [] e.family = "ipv4" -> 2
           [] e.family = "ipv6" -> 3
           [] OTHER -> 5

\* familyScore(e.family): an endpoint without the member has family undefined
familyScore(e) ==
    IF "family" \notin DOMAIN e THEN 4
    ELSE CASE e.family = "onion" -> 1
           [] e.family = "ipv6" -> 2
           [] e.family = "ipv4" -> 3
           [] OTHER -> 5

\* e.priority ?? 1000
PriorityOf(e) == IF "priority" \in DOMAIN e THEN e.priority ELSE 1000

\* The comparator handed to sort: negative, zero or positive
CompareEndpoints(a, b) ==
    IF PriorityOf(a) # PriorityOf(b)
    THEN PriorityOf(a) - PriorityOf(b)
    ELSE familyScore(a) - familyScore(b)

\* Array.prototype.sort is stable: an element goes behind every element that
\* was ahead of it in the input and does not compare greater than it
RECURSIVE InsertEndpoint(_, _)
InsertEndpoint(x, sorted) ==
    IF sorted = <<>> THEN <<x>>
    ELSE IF CompareEndpoints(x, Head(sorted)) < 0
         THEN <<x>> \o sorted
         ELSE <<Head(sorted)>> \o InsertEndpoint(x, Tail(sorted))

RECURSIVE SortEndpoints(_)
SortEndpoints(endpoints) ==
    IF endpoints = <<>> THEN <<>>
    ELSE InsertEndpoint(endpoints[Len(endpoints)],
                        SortEndpoints(SubSeq(endpoints, 1, Len(endpoints) - 1)))

\* selectEndpoints(endpoints): [...endpoints].sort(...)
selectEndpoints(endpoints) == SortEndpoints(endpoints)

\* No selectEndpoints call made
NoSelection == [pc |-> "idle", argument |-> <<>>, endpoints |-> <<>>, result |-> <<>>]

-----------------------------------------------------------------------------
(* State *)

IdleCall ==
    [pc |-> "idle", op |-> "resolve", hexPubkey |-> "", signer |-> NoSigner,
     identifier |-> "", strict |-> FALSE, gossip |-> FALSE, now |-> 0,
     keyInput |-> NoKeyInput, queryRelays |-> <<>>, received |-> <<>>,
     late |-> [state |-> "none", result |-> <<>>],
     outcome |-> Outcome("pending", NoPayload, NoEvent, "none")]

\* A call that has returned or thrown: its frame is gone; what is left is
\* what was asked (target, signer, identifier, strict), the relays the pool
\* was asked to connect to for it, what they delivered, and what came back
Returned(call, outcome, received) ==
    [call EXCEPT !.pc = "done", !.outcome = outcome, !.received = received,
                 !.op = IdleCall.op, !.gossip = IdleCall.gossip, !.now = IdleCall.now]

\* new Map() of P2PNode.peers and P2PNode.peerStatus
NoPeers == [pk \in {} |-> 0]

\* The WebSockets of the model, and one that handleConnection has not been
\* called with
Sockets == {1, 2}
NoSocket ==
    [state |-> "none", isIncoming |-> FALSE, remotePubkey |-> "", sent |-> 0,
     received |-> 0]

\* A call on the P2PNode: its name, its pubkey argument, "returned" or "thrown"
NodeCall(name, pubkey, ended) == [name |-> name, pubkey |-> pubkey, ended |-> ended]
NoCall == NodeCall("none", "", "returned")

\* No publish call in flight
IdlePublish ==
    [pc |-> "idle", relays |-> <<>>, event |-> NoEvent, logged |-> [op |-> "none"],
     promise |-> <<>>, reason |-> <<>>, acknowledged |-> <<>>,
     result |-> [status |-> "pending", message |-> <<>>]]

\* new Map()
EmptyCache == [k \in {} |-> 0]

\* options.pool left out
NoPool == "none"

Pools == {"resolverPool", "publisherPool", "sharedPool"}

\* NCC05Resolver constructor
NewResolver(options) ==
    [_ownPool |-> options.pool = NoPool,
     pool |-> IF options.pool # NoPool THEN options.pool ELSE "resolverPool",
     urlTransformer |-> options.urlTransformer,
     closeCalls |-> 0]

\* NCC05Publisher constructor
NewPublisher(options) ==
    [_ownPool |-> options.pool = NoPool,
     pool |-> IF options.pool # NoPool THEN options.pool ELSE "publisherPool",
     closeCalls |-> 0]

\* One resolver and one publisher constructed with the given options, on
\* relays that hold nothing
Constructed(resolverOptions, publisherOptions) ==
    /\ now = 0
    /\ relayStore = [r \in Relays |-> {}]
    /\ relayLists = {}
    /\ cache = EmptyCache
    /\ calls = [c \in Calls |-> IdleCall]
    /\ published = <<>>
    /\ pubCall = IdlePublish
    /\ resolver = NewResolver(resolverOptions)
    /\ publisher = NewPublisher(publisherOptions)
    /\ pools = [p \in Pools |-> <<>>]
    /\ selected = NoSelection
    /\ peers = NoPeers
    /\ peerStatus = NoPeers
    /\ sockets = [w \in Sockets |-> NoSocket]
    /\ emitted = <<>>
    /\ acceptCalls = {}
    /\ lastCall = NoCall

\* new NCC05Resolver({ bootstrapRelays }) and new NCC05Publisher()
Init == Constructed([pool |-> NoPool, urlTransformer |-> FALSE], [pool |-> NoPool])

-----------------------------------------------------------------------------
(* The clock *)

Tick ==
    /\ now < MaxNow
    /\ now' = now + 1
    /\ UNCHANGED <<relayStore, relayLists, cache, calls, published, pubCall, resolver, publisher, pools, selected, nodeVars>>

-----------------------------------------------------------------------------
(* NCC05Publisher *)

\* _publishToRelays: the relays of `accepted` store the event, and with at
\* least one accepting the call returns the signed event
PublishToRelays(relays, accepted, signedEvent, logged) ==
    /\ accepted \subseteq relays
    /\ accepted # {}
    /\ Len(published) < MaxEvents
    /\ relayStore' = [r \in Relays |->
                         IF r \in accepted
                         THEN relayStore[r] \cup {signedEvent}
                         ELSE relayStore[r]]
    /\ published' = Append(published, logged)
    /\ UNCHANGED <<now, relayLists, cache, calls, pubCall, resolver, publisher, pools, selected, nodeVars>>

Logged(op, signedEvent, payload, identifier, recipients, public) ==
    [op |-> op, event |-> signedEvent, payload |-> payload, identifier |-> identifier,
     recipients |-> recipients, public |-> public]

\* publish(relays, signerInput, payload, options)
Publish(relays, accepted, sk, payload, identifier, recipientPubkey, public, privateLocator, ids) ==
    \E id \in ids :
        LET signedEvent == PublishEvent(sk, payload, identifier, recipientPubkey,
                                        public, privateLocator, id)
        IN  /\ HashOf(signedEvent.sig.body, id)
            /\ PublishToRelays(relays, accepted, signedEvent,
                   Logged("publish", signedEvent, payload, identifier,
                          IF recipientPubkey = "" THEN {} ELSE {recipientPubkey}, public))

\* publishWrapped(relays, signerInput, recipients, payload, options)
PublishWrapped(relays, accepted, sk, recipients, payload, identifier, privateLocator, ids) ==
    \E id \in ids, sessionKey \in SessionSecrets :
        LET signedEvent == PublishWrappedEvent(sk, sessionKey, recipients, payload,
                                               identifier, privateLocator, id)
        IN  /\ HashOf(signedEvent.sig.body, id)
            /\ PublishToRelays(relays, accepted, signedEvent,
                   Logged("publishWrapped", signedEvent, payload, identifier,
                          recipients, FALSE))

-----------------------------------------------------------------------------
(* NCC05Resolver *)

Remove(f, key) == [k \in DOMAIN f \ {key} |-> f[k]]

Put(f, key, value) == [k \in DOMAIN f \cup {key} |-> IF k = key THEN value ELSE f[k]]

\* An entry that runs the urlTransformer over the payload it takes from the cache
ResolveEnterTransformsHit(c, op, hexPubkey, signer, identifier, strict, gossip) ==
    LET cacheKey == CacheKey(op, hexPubkey, identifier)
        frame == [IdleCall EXCEPT !.op = op, !.hexPubkey = hexPubkey,
                                  !.signer = signer, !.identifier = identifier,
                                  !.strict = strict, !.gossip = gossip, !.now = now]
    IN  /\ calls[c].pc = "idle"
        /\ IF cacheKey \in DOMAIN cache /\ CacheFresh(cache[cacheKey], now)
           THEN /\ calls' = [calls EXCEPT ![c] =
                       Returned(frame, Outcome("payload",
                                               applyUrlTransformer(cache[cacheKey].payload),
                                               cache[cacheKey].event, "hit"), <<>>)]
                /\ UNCHANGED cache
           ELSE /\ cache' = Remove(cache, cacheKey)
                /\ calls' = [calls EXCEPT ![c] =
                       [frame EXCEPT !.pc = IF gossip THEN "gossip" ELSE "query",
                                     !.queryRelays = bootstrapRelays]]
        /\ UNCHANGED <<now, relayStore, relayLists, published, pubCall, resolver, publisher, pools, selected, nodeVars>>

\* An entry that drops the whole cache when the key it looks up is not served
ResolveEnterClearsCache(c, op, hexPubkey, signer, identifier, strict, gossip) ==
    LET cacheKey == CacheKey(op, hexPubkey, identifier)
        frame == [IdleCall EXCEPT !.op = op, !.hexPubkey = hexPubkey,
                                  !.signer = signer, !.identifier = identifier,
                                  !.strict = strict, !.gossip = gossip, !.now = now]
    IN  /\ calls[c].pc = "idle"
        /\ IF cacheKey \in DOMAIN cache /\ CacheFresh(cache[cacheKey], now)
           THEN /\ calls' = [calls EXCEPT ![c] =
                       Returned(frame, Outcome("payload", cache[cacheKey].payload,
                                               cache[cacheKey].event, "hit"), <<>>)]
                /\ UNCHANGED cache
           ELSE /\ cache' = EmptyCache
                /\ calls' = [calls EXCEPT ![c] =
                       [frame EXCEPT !.pc = IF gossip THEN "gossip" ELSE "query",
                                     !.queryRelays = bootstrapRelays]]
        /\ UNCHANGED <<now, relayStore, relayLists, published, pubCall, resolver, publisher, pools, selected, nodeVars>>

\* resolve / resolveLatest up to the first relay request: a cache entry that
\* has not expired is returned; a stale one is deleted and the relays are
\* asked (the relay list first when options.gossip)
ResolveEnter(c, op, hexPubkey, signer, identifier, strict, gossip) ==
    LET cacheKey == CacheKey(op, hexPubkey, identifier)
        frame == [IdleCall EXCEPT !.op = op, !.hexPubkey = hexPubkey,
                                  !.signer = signer, !.identifier = identifier,
                                  !.strict = strict, !.gossip = gossip, !.now = now]
    IN  /\ calls[c].pc = "idle"
        /\ IF cacheKey \in DOMAIN cache /\ CacheFresh(cache[cacheKey], now)
           THEN /\ calls' = [calls EXCEPT ![c] =
                       Returned(frame, Outcome("payload", cache[cacheKey].payload,
                                               cache[cacheKey].event, "hit"), <<>>)]
                /\ UNCHANGED cache
           ELSE /\ cache' = Remove(cache, cacheKey)
                /\ calls' = [calls EXCEPT ![c] =
                       [frame EXCEPT !.pc = IF gossip THEN "gossip" ELSE "query",
                                     !.queryRelays = bootstrapRelays]]
        /\ UNCHANGED <<now, relayStore, relayLists, published, pubCall, resolver, publisher, pools, selected, nodeVars>>

\* resolve called with a string for the key: the cache is read first, then
\* toSigner converts the string, then the relays are asked
ResolveEnterKey(c, hexPubkey, signerInput, identifier, strict) ==
    LET cacheKey == CacheKey("resolve", hexPubkey, identifier)
        signer == toSigner(signerInput)
        frame == [IdleCall EXCEPT !.hexPubkey = hexPubkey, !.keyInput = signerInput,
                                  !.identifier = identifier, !.strict = strict,
                                  !.now = now]
    IN  /\ calls[c].pc = "idle"
        /\ IF cacheKey \in DOMAIN cache /\ CacheFresh(cache[cacheKey], now)
           THEN /\ calls' = [calls EXCEPT ![c] =
                       Returned(frame, Outcome("payload", cache[cacheKey].payload,
                                               cache[cacheKey].event, "hit"), <<>>)]
                /\ UNCHANGED cache
           ELSE /\ cache' = Remove(cache, cacheKey)
                /\ calls' = [calls EXCEPT ![c] =
                       IF signer.status # "ok"
                       THEN Returned(frame, Outcome(signer.status, NoPayload, NoEvent,
                                                    "none"), <<>>)
                       ELSE [frame EXCEPT !.pc = "query", !.signer = signer.sk,
                                          !.queryRelays = bootstrapRelays]]
        /\ UNCHANGED <<now, relayStore, relayLists, published, pubCall, resolver, publisher, pools, selected, nodeVars>>

\* tags.filter(t => t[0] === 'r').map(t => t[1])
RECURSIVE RTagValues(_)
RTagValues(tags) ==
    IF tags = <<>> THEN <<>>
    ELSE (IF Head(tags)[1] = "r" THEN <<Head(tags)[2]>> ELSE <<>>)
             \o RTagValues(Tail(tags))

\* [...new Set(list)]: the first occurrence of every element, in order
RECURSIVE Unique(_)
Unique(list) ==
    IF list = <<>> THEN <<>>
    ELSE LET front == Unique(SubSeq(list, 1, Len(list) - 1))
             last == list[Len(list)]
         IN  IF \E i \in 1..Len(front) : front[i] = last
             THEN front
             ELSE Append(front, last)

\* A discovery that takes the r tags of whatever event the relay sends
DiscoveredRelaysUnverified(relayListEvent, hexPubkey) ==
    RTagValues(relayListEvent.tags)

\* discoverRelays once pool.get has answered with an event: the r tags of a
\* relay list event that verifies and is the target's
DiscoveredRelays(relayListEvent, hexPubkey) ==
    IF verifyEvent(relayListEvent) /\ relayListEvent.pubkey = hexPubkey
    THEN RTagValues(relayListEvent.tags)
    ELSE <<>>

\* discoverRelays: the bootstrap relays, followed by the discovered relays
\* that are not among them yet
QueryRelays(relayListEvent, hexPubkey) ==
    LET discoveredRelays == DiscoveredRelays(relayListEvent, hexPubkey)
    IN  IF Len(discoveredRelays) > 0
        THEN Unique(bootstrapRelays \o discoveredRelays)
        ELSE bootstrapRelays

\* pool.get answers with one of the relay list events held, or with none
GossipAnswer(c) ==
    /\ calls[c].pc = "gossip"
    /\ \/ \E relayListEvent \in relayLists :
              calls' = [calls EXCEPT ![c].pc = "query",
                                     ![c].queryRelays =
                                         QueryRelays(relayListEvent, calls[c].hexPubkey)]
       \/ calls' = [calls EXCEPT ![c].pc = "query"]
    /\ UNCHANGED <<now, relayStore, relayLists, cache, published, pubCall, resolver, publisher, pools, selected, nodeVars>>

\* pool.get rejects: the catch of discoverRelays logs a warning and the
\* bootstrap relays are returned
GossipFails(c) ==
    /\ calls[c].pc = "gossip"
    /\ calls' = [calls EXCEPT ![c].pc = "query"]
    /\ UNCHANGED <<now, relayStore, relayLists, cache, published, pubCall, resolver, publisher, pools, selected, nodeVars>>

\* Event lists of at most n events drawn from `pool`, in any order, repeats allowed
SeqsUpTo(pool, n) == UNION {[1..k -> pool] : k \in 0..n}

\* What the relays of a call's query set can deliver
Deliverable(c) ==
    UNION {relayStore[calls[c].queryRelays[i]] : i \in 1..Len(calls[c].queryRelays)}

\* pool.querySync answers before the timer fires: the rest of
\* fetchFreshestRecord and of resolve / resolveLatest
QueryAnswer(c, result) ==
    LET call == calls[c]
        record == FreshestRecord(result, call.hexPubkey, call.signer)
        outcome == ResolveOutcome(call, record)
        cacheKey == CacheKey(call.op, call.hexPubkey, call.identifier)
    IN  /\ call.pc = "query"
        /\ calls' = [calls EXCEPT ![c] = Returned(call, outcome, result)]
        /\ cache' = IF outcome.how = "stored"
                    THEN Put(cache, cacheKey,
                             [payload |-> outcome.payload, expires |-> record.expiry,
                              event |-> record.event])
                    ELSE cache
        /\ UNCHANGED <<now, relayStore, relayLists, published, pubCall, resolver, publisher, pools, selected, nodeVars>>

\* The timer of fetchFreshestRecord fires first: the race is lost to the
\* rejection, NCC05TimeoutError is rethrown, and the querySync promise is
\* left behind unsettled
QueryTimeout(c) ==
    /\ calls[c].pc = "query"
    /\ calls' = [calls EXCEPT ![c] =
           [Returned(calls[c], Outcome("TimeoutError", NoPayload, NoEvent, "none"), <<>>)
               EXCEPT !.late = [state |-> "pending", result |-> <<>>]]]
    /\ UNCHANGED <<now, relayStore, relayLists, cache, published, pubCall, resolver, publisher, pools, selected, nodeVars>>

\* pool.querySync rejects before the timer fires: the catch of
\* fetchFreshestRecord wraps what is not an NCC05Error in NCC05RelayError
QueryFails(c) ==
    /\ calls[c].pc = "query"
    /\ calls' = [calls EXCEPT ![c] =
           Returned(calls[c], Outcome("RelayError", NoPayload, NoEvent, "none"), <<>>)]
    /\ UNCHANGED <<now, relayStore, relayLists, cache, published, pubCall, resolver, publisher, pools, selected, nodeVars>>

\* A late answer that is handled like one that won the race
LateAnswerStores(c, result) ==
    LET record == FreshestRecord(result, calls[c].hexPubkey, calls[c].signer)
        cacheKey == CacheKey("resolve", calls[c].hexPubkey, calls[c].identifier)
    IN  /\ calls[c].pc = "done"
        /\ calls[c].late.state = "pending"
        /\ calls' = [calls EXCEPT ![c].late = [state |-> "dropped", result |-> result]]
        /\ cache' = IF record.status = "ok"
                    THEN Put(cache, cacheKey,
                             [payload |-> record.payload, expires |-> record.expiry,
                              event |-> record.event])
                    ELSE cache
        /\ UNCHANGED <<now, relayStore, relayLists, published, pubCall, resolver, publisher, pools, selected, nodeVars>>

\* pool.querySync settles after the timer has fired: Promise.race has settled
\* already and nothing else waits for the promise, so the list is dropped
LateAnswer(c, result) ==
    /\ calls[c].pc = "done"
    /\ calls[c].late.state = "pending"
    /\ calls' = [calls EXCEPT ![c].late = [state |-> "dropped", result |-> result]]
    /\ UNCHANGED <<now, relayStore, relayLists, cache, published, pubCall, resolver, publisher, pools, selected, nodeVars>>

-----------------------------------------------------------------------------
(* The relays: other clients of the key owners, and relays that lie *)

\* An event of kind 30058 made by other software with the owner's key: public
\* content and an expiration tag, which buildPayloadRecord reads
ForeignPublish(relays, sk, payload, identifier, expiration, ids) ==
    \E id \in ids :
        LET signedEvent ==
                signEvent([kind |-> 30058, created_at |-> now, pubkey |-> getPublicKey(sk),
                           tags |-> <<<<"d", identifier>>, <<"expiration", expiration>>>>,
                           content |-> JsonStringify(payload)], sk, id)
        IN  /\ HashOf(signedEvent.sig.body, id)
            /\ PublishToRelays(relays, relays, signedEvent,
                   Logged("foreign", signedEvent, payload, identifier, {}, TRUE))

\* An event of kind 30058 made by other software with the owner's key, whose
\* content is `text`, given as it is or encrypted for `recipientPubkey`
ForeignPublishText(relays, sk, text, identifier, recipientPubkey, public, ids) ==
    \E id \in ids :
        LET content == IF public THEN text
                       ELSE nip44Encrypt(text, getConversationKey(sk, recipientPubkey))
            signedEvent ==
                signEvent([kind |-> 30058, created_at |-> now, pubkey |-> getPublicKey(sk),
                           tags |-> <<<<"d", identifier>>>>,
                           content |-> content], sk, id)
        IN  /\ HashOf(signedEvent.sig.body, id)
            /\ PublishToRelays(relays, relays, signedEvent,
                   Logged("text", signedEvent, NoPayload, identifier,
                          IF public THEN {} ELSE {recipientPubkey}, public))

\* A relay alters an event it holds and keeps id and sig: it moves created_at
\* or names another author
Tampered(e) ==
    ({[e EXCEPT !.created_at = t] : t \in 0..MaxNow}
        \cup {[e EXCEPT !.pubkey = k] : k \in Keys}) \ {e}

RelayTampers(r) ==
    \E e \in relayStore[r] : \E forged \in Tampered(e) :
        /\ verifyEvent(e)
        /\ Cardinality(AllEvents) <= Len(published)
        /\ relayStore' = [relayStore EXCEPT ![r] = @ \cup {forged}]
        /\ UNCHANGED <<now, relayLists, cache, calls, published, pubCall, resolver, publisher, pools, selected, nodeVars>>

\* The owner `sk` publishes a kind-10002 relay list naming `urls`
PublishRelayList(sk, urls) ==
    \E id \in {RelayListId} :
        LET signedEvent ==
                signEvent([kind |-> 10002, created_at |-> now, pubkey |-> getPublicKey(sk),
                           tags |-> [i \in 1..Len(urls) |-> <<"r", urls[i]>>],
                           content |-> [form |-> "empty"]], sk, id)
        IN  /\ relayLists = {}
            /\ relayLists' = {signedEvent}
            /\ UNCHANGED <<now, relayStore, cache, calls, published, pubCall, resolver, publisher, pools, selected, nodeVars>>

\* A relay alters the relay list event it holds and keeps id and sig: it
\* names the author `pubkey`
RelayListTampers(pubkey) ==
    \E e \in relayLists :
        /\ verifyEvent(e)
        /\ e.pubkey # pubkey
        /\ relayLists' = relayLists \cup {[e EXCEPT !.pubkey = pubkey]}
        /\ UNCHANGED <<now, relayStore, cache, calls, published, pubCall, resolver, publisher, pools, selected, nodeVars>>

\* Where ties between ids play no part a new event gets the first unused id
FirstFreeId ==
    LET free == Ids \ {e.id : e \in AllEvents}
    IN  {id \in free : \A other \in free : localeCompare(id, other) <= 0}

-----------------------------------------------------------------------------
(* Spec: one resolver, calls that overlap, a moving clock.                  *)
(* The owner A publishes public records under "addr"; a relay answers a     *)
(* query with at most one event here (what a call does with a longer list   *)
(* is the business of SpecSelect).                                          *)

SpecOps == {"resolve", "resolveLatest"}

PublishStep ==
    \E ttl \in {0, 1} :
        Publish({"r1"}, {"r1"}, SecretKey("A"), Payload(now, ttl, "u1"), "addr", "",
                TRUE, FALSE, FirstFreeId)

RelayListStep ==
    /\ AllEvents = {}
    /\ PublishRelayList(SecretKey("A"), <<"r2">>)

ResolveStep ==
    \E c \in Calls, op \in SpecOps, gossip \in BOOLEAN :
        /\ \A d \in Calls : d < c => calls[d].pc # "idle"
        /\ ResolveEnter(c, op, "A", NoSigner, "addr", FALSE, gossip)

GossipStep == \E c \in Calls : GossipAnswer(c)

QueryStep ==
    \E c \in Calls : \E result \in SeqsUpTo(Deliverable(c), 1) :
        QueryAnswer(c, result)

TimeoutStep == \E c \in Calls : QueryTimeout(c)

Next ==
    \/ Tick
    \/ PublishStep
    \/ RelayListStep
    \/ ResolveStep
    \/ GossipStep
    \/ QueryStep
    \/ TimeoutStep

Spec == Init /\ [][Next]_vars

-----------------------------------------------------------------------------
(* Claims checked under Spec *)

\* C4 (cache before query): a resolve or resolveLatest call that finds a cache
\* entry for its key with expires > now returns that entry's payload at once
\* and puts no request (gossip get, kind-30058 query) on the wire; one that
\* finds an entry with expires <= now has deleted it, and nothing else, by
\* the time its first request is on the wire.
C4_CacheBeforeQuery ==
    [][\A c \in Calls, op \in SpecOps, strict \in BOOLEAN, gossip \in BOOLEAN :
          ResolveEnter(c, op, "A", NoSigner, "addr", strict, gossip) =>
              LET k == CacheKey(op, "A", "addr")
              IN  /\ (k \in DOMAIN cache /\ cache[k].expires > now) =>
                         /\ calls'[c].pc = "done"
                         /\ calls'[c].outcome.status = "payload"
                         /\ calls'[c].outcome.payload = cache[k].payload
                         /\ cache' = cache
                         /\ \A d \in Calls : calls'[d].pc \in {"gossip", "query"}
                                                 => calls'[d] = calls[d]
                  /\ (k \in DOMAIN cache /\ cache[k].expires <= now) =>
                         /\ calls'[c].pc \in {"gossip", "query"}
                         /\ k \notin DOMAIN cache'
                         /\ \A j \in DOMAIN cache \ {k} :
                                j \in DOMAIN cache' /\ cache'[j] = cache[j]
      ]_vars

\* C4 witness: a call found a live entry under its key and was served from
\* the cache, the entry having been stored by an earlier call's query
C4_Witness ==
    \E c, d \in Calls :
        /\ calls[c].pc = "done" /\ calls[c].outcome.how = "hit"
        /\ calls[d].pc = "done" /\ calls[d].outcome.how = "stored"
        /\ calls[c].outcome.payload = calls[d].outcome.payload

\* C6 (monotonic results while cached), as claimed: while the cache entry of
\* a key has not expired, no call for that key returns, or writes to the
\* cache, the payload of an event older than the one the entry was built from.
C6_MonotonicWhileCached ==
    [][\A c \in Calls :
          (calls[c].pc = "query" /\ calls'[c].pc = "done"
             /\ calls'[c].outcome.status = "payload") =>
              LET k == CacheKey(calls[c].op, calls[c].hexPubkey, calls[c].identifier)
              IN  (k \in DOMAIN cache /\ cache[k].expires > now) =>
                      /\ calls'[c].outcome.event.created_at >= cache[k].event.created_at
                      /\ cache'[k].event.created_at >= cache[k].event.created_at
      ]_vars

-----------------------------------------------------------------------------
(* SpecSelect: what one call selects from the list a query delivers.        *)
(* A and B publish public records under "addr" with any free id, twice in   *)
(* one second or in different seconds; the relay may alter one event it     *)
(* holds; the query delivers any list of up to MaxResults events held.      *)

\* The events a key owner signed, and the payload each was built from
Genuine(e) == \E i \in 1..Len(published) : published[i].event = e

PayloadOf(e) == published[CHOOSE i \in 1..Len(published) : published[i].event = e].payload

Events(result) == {result[i] : i \in 1..Len(result)}

SelectPublishStep ==
    \E sk \in {SecretKey("A"), SecretKey("B")}, updated_at \in {now, now + 1} :
        Publish({"r1"}, {"r1"}, sk, Payload(updated_at, 1, "u1"), "addr", "",
                TRUE, FALSE, Ids)

SelectTamperStep == RelayTampers("r1")

SelectResolveStep ==
    \E op \in SpecOps : ResolveEnter(1, op, "A", NoSigner, "addr", FALSE, FALSE)

SelectQueryStep ==
    \E result \in SeqsUpTo(Deliverable(1), MaxResults) : QueryAnswer(1, result)

NextSelect ==
    \/ Tick
    \/ SelectPublishStep
    \/ SelectTamperStep
    \/ SelectResolveStep
    \/ SelectQueryStep

SpecSelect == Init /\ [][NextSelect]_vars

\* The events of a returned call's result list that its target signed
ValidReceived(c) ==
    {e \in Events(calls[c].received) : Genuine(e) /\ e.pubkey = calls[c].hexPubkey}

\* A call that has returned what a query delivered
Answered(c) == calls[c].pc = "done" /\ calls[c].outcome.how \in {"stored", "expired", "none"}

-----------------------------------------------------------------------------
(* Claims checked under SpecSelect *)

\* C7 (replaceability): a call that received, in any order and any number of
\* times, exactly two events its target published under the identifier, one
\* with a created_at strictly below the other's, returned the payload of the
\* later one.
C7_Replaceability ==
    \A c \in Calls : \A e1, e2 \in ValidReceived(c) :
        (/\ Answered(c)
         /\ ValidReceived(c) = {e1, e2}
         /\ TagValue(e1.tags, "d") = TagValue(e2.tags, "d")
         /\ TagValue(e1.tags, "d").value = calls[c].identifier
         /\ e1.created_at < e2.created_at)
        => /\ calls[c].outcome.status = "payload"
           /\ calls[c].outcome.event = e2
           /\ calls[c].outcome.payload = PayloadOf(e2)

\* C7 witness: the later event arrived first and has the larger id, the
\* earlier one arrived behind it, and the later one's payload came back
C7_Witness ==
    \E c \in Calls : \E e1, e2 \in ValidReceived(c) :
        /\ Answered(c)
        /\ ValidReceived(c) = {e1, e2}
        /\ e1.created_at < e2.created_at
        /\ e1.id[1] < e2.id[1]
        /\ calls[c].received = <<e2, e1>>
        /\ calls[c].outcome.payload = PayloadOf(e2)
        /\ PayloadOf(e1) # PayloadOf(e2)

\* C8 (latest wins across sequential publishes), as claimed: when the target
\* published p1 and afterwards p2 under one identifier, p2.updated_at above
\* p1.updated_at, at any two times the clock permits, a call that received
\* both events returned p2.
C8_LatestWins ==
    \A c \in Calls : \A i, j \in 1..Len(published) :
        (/\ Answered(c)
         /\ i < j
         /\ published[i].op = "publish" /\ published[j].op = "publish"
         /\ published[i].event.pubkey = calls[c].hexPubkey
         /\ published[j].event.pubkey = calls[c].hexPubkey
         /\ published[i].identifier = calls[c].identifier
         /\ published[j].identifier = calls[c].identifier
         /\ published[j].payload.updated_at > published[i].payload.updated_at
         /\ ValidReceived(c) = {published[i].event, published[j].event})
        => /\ calls[c].outcome.status = "payload"
           /\ calls[c].outcome.payload = published[j].payload

\* C9 (deterministic tie-break): the event a call selected is, of the set of
\* valid events it received, the one with the highest created_at and among
\* those the one with the lexicographically smallest id; the arrival order and
\* the repeats in the result list play no part.
C9_DeterministicTieBreak ==
    \A c \in Calls :
        (Answered(c) /\ ValidReceived(c) # {})
        => /\ calls[c].outcome.event \in ValidReceived(c)
           /\ \A o \in ValidReceived(c) :
                  LET chosen == calls[c].outcome.event
                  IN  \/ o.created_at < chosen.created_at
                      \/ /\ o.created_at = chosen.created_at
                         /\ \/ chosen.id[1] < o.id[1]
                            \/ chosen.id[1] = o.id[1] /\ chosen.id[2] <= o.id[2]

\* C9 witness: two valid events of one second, the one with the larger id
\* delivered first and then again behind the other; the smaller id was selected
C9_Witness ==
    \E c \in Calls : \E e1, e2 \in ValidReceived(c) :
        /\ Answered(c)
        /\ e1.created_at = e2.created_at
        /\ e1.id[1] < e2.id[1]
        /\ Len(calls[c].received) >= 2
        /\ calls[c].received[1] = e2
        /\ calls[c].received[2] = e1
        /\ calls[c].outcome.event = e1

\* C10 (invalid events are dropped silently): a call returns a payload or
\* null and never an error because of what it received; a returned or cached
\* payload is the one its target signed in the event it is taken from; and the
\* event selected is the one the valid events alone decide: none when there is
\* no valid event, else a valid event that no valid event is newer than.
C10_InvalidDropped ==
    /\ \A c \in Calls :
           Answered(c)
           => /\ calls[c].outcome.status \in {"payload", "null"}
              /\ (calls[c].outcome.status = "null") <=> (ValidReceived(c) = {})
              /\ calls[c].outcome.status = "payload"
                 => /\ calls[c].outcome.event \in ValidReceived(c)
                    /\ calls[c].outcome.payload = PayloadOf(calls[c].outcome.event)
                    /\ \A o \in ValidReceived(c) :
                           o.created_at <= calls[c].outcome.event.created_at
    /\ \A k \in DOMAIN cache :
           /\ Genuine(cache[k].event)
           /\ cache[k].event.pubkey = k[1]
           /\ cache[k].payload = PayloadOf(cache[k].event)

\* C10 witness: the list held, ahead of the valid event, an event that names
\* the target and that the relay had moved to a later created_at than the
\* valid event's; the call returned the payload of the valid event
C10_Witness ==
    \E c \in Calls : \E forged \in Events(calls[c].received) :
        /\ Answered(c)
        /\ ~Genuine(forged)
        /\ forged.pubkey = calls[c].hexPubkey
        /\ calls[c].received[1] = forged
        /\ calls[c].outcome.status = "payload"
        /\ forged.created_at > calls[c].outcome.event.created_at

-----------------------------------------------------------------------------
(* SpecDeliver: who can read what A publishes.                              *)
(* A publishes under "addr" in every mode (public, to itself, to B, wrapped *)
(* for a set of recipients), with and without the private marker; one call  *)
(* with default options resolves A with no signer or with the key of A, B   *)
(* or C.                                                                    *)

Recipients == {"B", "C"}

Signers == {NoSigner} \cup {SecretKey(k) : k \in Keys}

DeliverPublishStep ==
    \E recipientPubkey \in {"", "B"}, public \in BOOLEAN, privateLocator \in BOOLEAN :
        Publish({"r1"}, {"r1"}, SecretKey("A"), Payload(now, 1, "u1"), "addr",
                recipientPubkey, public, privateLocator, FirstFreeId)

DeliverWrappedStep ==
    \E recipients \in SUBSET Recipients, privateLocator \in BOOLEAN :
        PublishWrapped({"r1"}, {"r1"}, SecretKey("A"), recipients,
                       Payload(now, 1, "u2"), "addr", privateLocator, FirstFreeId)

\* NCC05Group.resolveAsGroup: resolve with the shared key of the group
resolveAsGroup(c, groupPubkey, groupSecretKey, identifier) ==
    ResolveEnter(c, "resolve", groupPubkey, groupSecretKey, identifier, FALSE, FALSE)

DeliverResolveStep ==
    \/ \E signer \in Signers \ {SecretKey("A")} :
           ResolveEnter(1, "resolve", "A", signer, "addr", FALSE, FALSE)
    \/ resolveAsGroup(1, "A", SecretKey("A"), "addr")

DeliverQueryStep ==
    \E result \in SeqsUpTo(Deliverable(1), MaxResults) : QueryAnswer(1, result)

NextDeliver ==
    \/ Tick
    \/ DeliverPublishStep
    \/ DeliverWrappedStep
    \/ DeliverResolveStep
    \/ DeliverQueryStep

SpecDeliver == Init /\ [][NextDeliver]_vars

\* The call received `w` from its target and no valid event as new as `w`:
\* `w` is the event its result is decided by
Newest(c, w) ==
    /\ w \in ValidReceived(c)
    /\ \A o \in ValidReceived(c) \ {w} : o.created_at < w.created_at

-----------------------------------------------------------------------------
(* Claims checked under SpecDeliver *)

\* C1 (wrapped delivery): when publishWrapped(A, R, p, d) put an event on the
\* relays and a resolve(A, d) that found no cache entry received it as the
\* newest event of A, the call returned p if it was made with the key of a
\* member of R, and null if it was made with a key outside R or with no
\* signer.
C1_WrappedDelivery ==
    \A c \in Calls : \A i \in 1..Len(published) :
        (/\ Answered(c)
         /\ published[i].op = "publishWrapped"
         /\ published[i].identifier = calls[c].identifier
         /\ Newest(c, published[i].event))
        => IF calls[c].signer # NoSigner
              /\ getPublicKey(calls[c].signer) \in published[i].recipients
           THEN /\ calls[c].outcome.status = "payload"
                /\ calls[c].outcome.payload = published[i].payload
           ELSE calls[c].outcome.status = "null"

\* C1 witness: a record wrapped for B and C, published behind an older record
\* of A, both delivered, and a call made with C's key that got the payload
C1_Witness ==
    \E c \in Calls : \E i \in 1..Len(published) :
        /\ Answered(c)
        /\ published[i].op = "publishWrapped"
        /\ published[i].recipients = {"B", "C"}
        /\ Newest(c, published[i].event)
        /\ Cardinality(ValidReceived(c)) = 2
        /\ calls[c].signer = SecretKey("C")
        /\ calls[c].outcome.payload = published[i].payload

\* C2 (targeted delivery): when publish by A with recipientPubkey = B and
\* public unset put an event on the relays and a resolve(A, d) that found no
\* cache entry received it as the newest event of A, the call returned the
\* published payload if it was made with B's key; made with any other key, or
\* with none, it returned null or failed with a decryption error.
C2_TargetedDelivery ==
    \A c \in Calls : \A i \in 1..Len(published) :
        (/\ Answered(c)
         /\ published[i].op = "publish"
         /\ ~published[i].public
         /\ published[i].recipients = {"B"}
         /\ published[i].identifier = calls[c].identifier
         /\ Newest(c, published[i].event))
        => IF calls[c].signer = SecretKey("B")
           THEN /\ calls[c].outcome.status = "payload"
                /\ calls[c].outcome.payload = published[i].payload
           ELSE /\ calls[c].outcome.status \in {"null", "DecryptionError"}
                /\ calls[c].outcome.payload = NoPayload

\* C2 witness: a record targeted at B was delivered and a call made with B's
\* key got the payload
C2_Witness ==
    \E c \in Calls : \E i \in 1..Len(published) :
        /\ Answered(c)
        /\ published[i].op = "publish"
        /\ ~published[i].public
        /\ published[i].recipients = {"B"}
        /\ Newest(c, published[i].event)
        /\ calls[c].signer = SecretKey("B")
        /\ calls[c].outcome.payload = published[i].payload

\* C3 (relay privacy): every event that publish without public, or
\* publishWrapped, handed to the relays has as tags ["d", identifier] and at
\* most ["private", "true"] behind it, none of them an endpoint value; the
\* content of a self or targeted record is NIP-44 ciphertext and does not
\* begin with '{'; the content of a wrapped record is an object of ciphertext
\* and wraps only, each of them NIP-44 ciphertext.
C3_RelayPrivacy ==
    \A i \in 1..Len(published) :
        LET event == published[i].event
            content == event.content
            endpointValues ==
                UNION {{published[i].payload.endpoints[n].url,
                        published[i].payload.endpoints[n].type,
                        published[i].payload.endpoints[n].family} :
                           n \in 1..Len(published[i].payload.endpoints)}
        IN  (\/ published[i].op = "publish" /\ ~published[i].public
             \/ published[i].op = "publishWrapped")
            => /\ event.tags \in {<<<<"d", published[i].identifier>>>>,
                                  <<<<"d", published[i].identifier>>, <<"private", "true">>>>}
               /\ \A n \in 1..Len(event.tags) :
                      event.tags[n][1] \notin endpointValues
                      /\ event.tags[n][2] \notin endpointValues
               /\ published[i].op = "publish"
                  => /\ content.form = "nip44"
                     /\ ~StartsWithBrace(content)
               /\ published[i].op = "publishWrapped"
                  => /\ DOMAIN content = {"form", "ciphertext", "wraps"}
                     /\ content.form = "wrapped"
                     /\ content.ciphertext.form = "nip44"
                     /\ \A rPk \in DOMAIN content.wraps : content.wraps[rPk].form = "nip44"

\* C3 witness: a record encrypted for B and a wrapped record with the private
\* marker have both been handed to the relays
C3_Witness ==
    \E i, j \in 1..Len(published) :
        /\ published[i].op = "publish"
        /\ ~published[i].public
        /\ published[i].recipients = {"B"}
        /\ published[j].op = "publishWrapped"
        /\ published[j].recipients # {}
        /\ TagValue(published[j].event.tags, "private").has
        /\ published[i].event \in relayStore["r1"]
        /\ published[j].event \in relayStore["r1"]

-----------------------------------------------------------------------------
(* SpecFresh: records past their expiry.                                    *)
(* A publishes public records with ttl 0 or 1, other software of A's        *)
(* publishes records that carry an expiration tag; resolve calls, strict or *)
(* not, follow one another on one resolver while the clock moves.           *)

FreshPublishStep ==
    \E ttl \in {0, 1} :
        Publish({"r1"}, {"r1"}, SecretKey("A"), Payload(now, ttl, "u1"), "addr", "",
                TRUE, FALSE, FirstFreeId)

FreshForeignStep ==
    \E expiration \in {"1", "never"}, ttl \in {1, 2} :
        ForeignPublish({"r1"}, SecretKey("A"), Payload(now, ttl, "u2"), "addr",
                       expiration, FirstFreeId)

FreshResolveStep ==
    \E c \in Calls, strict \in BOOLEAN :
        /\ \A d \in Calls : d < c => calls[d].pc = "done"
        /\ ResolveEnter(c, "resolve", "A", NoSigner, "addr", strict, FALSE)

FreshQueryStep ==
    \E c \in Calls : \E result \in SeqsUpTo(Deliverable(c), 1) : QueryAnswer(c, result)

NextFresh ==
    \/ Tick
    \/ FreshPublishStep
    \/ FreshForeignStep
    \/ FreshResolveStep
    \/ FreshQueryStep

SpecFresh == Init /\ [][NextFresh]_vars

-----------------------------------------------------------------------------
(* Claims checked under SpecFresh *)

-----------------------------------------------------------------------------
(* SpecIdent: records under several identifiers.                            *)
(* A publishes public records under "addr" and "alt"; resolve calls for     *)
(* "addr", "alt" and "latest" and resolveLatest calls follow one another on *)
(* one resolver. resolveLatest takes no identifier: its frame carries       *)
(* NoIdentifier.                                                            *)

NoIdentifier == ""

ResolveIdentifiers == Identifiers \cup {"latest"}

IdentPublishStep ==
    \E identifier \in Identifiers :
        Publish({"r1"}, {"r1"}, SecretKey("A"),
                Payload(now, 1, IF identifier = "addr" THEN "u1" ELSE "u2"),
                identifier, "", TRUE, FALSE, FirstFreeId)

IdentResolveStep ==
    \E c \in Calls, identifier \in ResolveIdentifiers :
        /\ \A d \in Calls : d < c => calls[d].pc = "done"
        /\ ResolveEnter(c, "resolve", "A", NoSigner, identifier, FALSE, FALSE)

IdentLatestStep ==
    \E c \in Calls :
        /\ \A d \in Calls : d < c => calls[d].pc = "done"
        /\ ResolveEnter(c, "resolveLatest", "A", NoSigner, NoIdentifier, FALSE, FALSE)

IdentQueryStep ==
    \E c \in Calls : \E result \in SeqsUpTo(Deliverable(c), MaxResults) :
        QueryAnswer(c, result)

NextIdent ==
    \/ Tick
    \/ IdentPublishStep
    \/ IdentResolveStep
    \/ IdentLatestStep
    \/ IdentQueryStep

SpecIdent == Init /\ [][NextIdent]_vars

\* A returned call that was a resolve(target, signer, identifier)
ReturnedResolve(c) == calls[c].pc = "done" /\ calls[c].identifier # NoIdentifier

-----------------------------------------------------------------------------
(* Claims checked under SpecIdent *)

\* C11 (identifier match), as claimed: a resolve(target, signer, identifier)
\* that returned a payload returned one taken from an event whose d tag is
\* identifier; and a resolve whose selected event (the newest valid event
\* received) has another d tag returned null and stored nothing.
C11_IdentifierMatch ==
    \A c \in Calls :
        ReturnedResolve(c)
        => /\ calls[c].outcome.status = "payload"
              => TagValue(calls[c].outcome.event.tags, "d").value = calls[c].identifier
           /\ \A e \in ValidReceived(c) :
                  (/\ Answered(c)
                   /\ Newest(c, e)
                   /\ TagValue(e.tags, "d").value # calls[c].identifier)
                  => /\ calls[c].outcome.status = "null"
                     /\ calls[c].outcome.how = "none"

\* C12 (resolution by d tag), as claimed: a resolve(target, signer,
\* identifier) that received at least one valid event of the target with
\* d = identifier returned the payload of the newest of these, whatever
\* events of the target under other d tags it received with them.
C12_ResolutionByDTag ==
    \A c \in Calls :
        LET matching == {e \in ValidReceived(c) :
                            TagValue(e.tags, "d").value = calls[c].identifier}
        IN  (ReturnedResolve(c) /\ Answered(c) /\ matching # {})
            => /\ calls[c].outcome.status = "payload"
               /\ calls[c].outcome.event \in matching
               /\ \A o \in matching :
                      o.created_at <= calls[c].outcome.event.created_at

-----------------------------------------------------------------------------
(* Further claims checked under SpecDeliver *)

\* The published events a call made with `signer` is able to read: public
\* ones, those encrypted to the signer's key (to the publisher's own key when
\* no recipient was named), and wrapped ones that list the signer's key
Readable(signer) ==
    {published[i].event : i \in
        {j \in 1..Len(published) :
            \/ published[j].op = "publish" /\ published[j].public
            \/ /\ published[j].op = "publish"
               /\ ~published[j].public
               /\ signer # NoSigner
               /\ IF published[j].recipients = {}
                  THEN getPublicKey(signer) = published[j].event.pubkey
                  ELSE getPublicKey(signer) \in published[j].recipients
            \/ /\ published[j].op = "publishWrapped"
               /\ signer # NoSigner
               /\ getPublicKey(signer) \in published[j].recipients}}

\* C13 (selection discards undecryptable payloads), as claimed: of the events
\* a call received, those with invalid signatures and those whose payload the
\* caller cannot decrypt are discarded first, and the call returned the
\* payload of the event with the highest created_at among the remaining ones.
C13_DiscardsUndecryptable ==
    \A c \in Calls :
        LET remaining == ValidReceived(c) \cap Readable(calls[c].signer)
        IN  (Answered(c) /\ remaining # {})
            => /\ calls[c].outcome.status = "payload"
               /\ calls[c].outcome.event \in remaining
               /\ \A o \in remaining :
                      o.created_at <= calls[c].outcome.event.created_at

\* C18 (decryption failure policy), as claimed: when the event a call
\* selected cannot be decrypted with the signer the caller supplied, a call
\* that is not strict returned null and a strict call raised DecryptionError;
\* when the event is wrapped and the caller is not among its recipients the
\* call returned null in both modes.
C18_DecryptionFailurePolicy ==
    \A c \in Calls : \A i \in 1..Len(published) :
        (/\ Answered(c)
         /\ Newest(c, published[i].event)
         /\ calls[c].signer # NoSigner
         /\ published[i].event \notin Readable(calls[c].signer))
        => IF published[i].op = "publishWrapped"
           THEN calls[c].outcome.status = "null"
           ELSE IF calls[c].strict
                THEN calls[c].outcome.status = "DecryptionError"
                ELSE calls[c].outcome.status = "null"

-----------------------------------------------------------------------------
(* SpecTimeout: relays that answer late or never.                           *)
(* A publishes public records and a relay list; resolve calls, with and     *)
(* without gossip, overlap on one resolver. A relay answers a request at    *)
(* any time or never; the only step that is certain to happen is the firing *)
(* of a timer that has been set.                                            *)

TimeoutPublishStep ==
    Publish({"r1"}, {"r1"}, SecretKey("A"), Payload(now, 1, "u1"), "addr", "",
            TRUE, FALSE, FirstFreeId)

TimeoutResolveStep ==
    \E c \in Calls, gossip \in BOOLEAN :
        /\ \A d \in Calls : d < c => calls[d].pc # "idle"
        /\ ResolveEnter(c, "resolve", "A", NoSigner, "addr", FALSE, gossip)

LateStep ==
    \E c \in Calls : \E result \in SeqsUpTo(AllEvents, 1) : LateAnswer(c, result)

NextTimeout ==
    \/ Tick
    \/ TimeoutPublishStep
    \/ RelayListStep
    \/ TimeoutResolveStep
    \/ GossipStep
    \/ QueryStep
    \/ TimeoutStep
    \/ LateStep

SpecTimeout ==
    /\ Init
    /\ [][NextTimeout]_vars
    /\ \A c \in Calls : WF_vars(QueryTimeout(c))

-----------------------------------------------------------------------------
(* Claims checked under SpecTimeout *)

\* C14 (query timeout): when the timer fires while the kind-30058 query of a
\* resolve call is outstanding, the call fails with TimeoutError and the
\* cache is left as it is; when the relays answer that query afterwards,
\* whatever they deliver, the outcome of the call and the cache stay as they
\* are.
C14_QueryTimeout ==
    [][/\ \A c \in Calls :
              QueryTimeout(c)
              => /\ calls'[c].pc = "done"
                 /\ calls'[c].outcome.status = "TimeoutError"
                 /\ cache' = cache
       /\ \A c \in Calls :
              (calls[c].pc = "done" /\ calls[c].late.state = "pending"
                 /\ calls'[c].late.state = "dropped")
              => /\ calls'[c].pc = "done"
                 /\ calls'[c].outcome = calls[c].outcome
                 /\ cache' = cache
      ]_vars

\* C14 witness: a call timed out before anything was cached, the relay
\* answered its query afterwards with an event of the target, and the call is
\* still failed with TimeoutError and the cache still empty
C14_Witness ==
    \E c \in Calls :
        /\ calls[c].pc = "done"
        /\ calls[c].outcome.status = "TimeoutError"
        /\ calls[c].late.state = "dropped"
        /\ Len(calls[c].late.result) = 1
        /\ Genuine(calls[c].late.result[1])
        /\ cache = EmptyCache

\* C15 (deadline from entry), as claimed: every resolve call that has been
\* entered completes, with gossip and without, even if no relay ever answers:
\* the timers that have been set are all that is certain to fire.
C15_DeadlineFromEntry ==
    \A c \in Calls :
        (calls[c].pc \in {"gossip", "query"}) ~> (calls[c].pc = "done")

-----------------------------------------------------------------------------
(* NCC05Publisher._publishToRelays step by step: one wrapped promise and    *)
(* one timer per entry of the relay list, then Promise.allSettled.          *)
(* (Publish and PublishWrapped above are the runs of it in which the relays *)
(* of `accepted` acknowledge at once.)                                      *)

\* What a promise can be rejected with: an Error, which has a message, or
\* any other value (pool.publish types the reason as any), which has none
ErrorReason(text) == [kind |-> "Error", text |-> text]

OtherReason(text) == [kind |-> "string", text |-> text]

NoReason == [kind |-> "none", text |-> ""]

\* new NCC05TimeoutError("Publish timed out")
TimedOut == ErrorReason("Publish timed out")

\* reason.message
MessageOf(reason) == IF reason.kind = "Error" THEN reason.text ELSE "undefined"

\* pool.publish(relays, signedEvent) and the wrapping of its promises
StartPublishing(relays, signedEvent, logged) ==
    /\ pubCall.pc \in {"idle", "done"}
    /\ Len(published) < MaxEvents
    /\ pubCall' = [pc |-> "waiting", relays |-> relays, event |-> signedEvent,
                   logged |-> logged,
                   promise |-> [i \in 1..Len(relays) |-> "pending"],
                   reason |-> [i \in 1..Len(relays) |-> NoReason],
                   acknowledged |-> [i \in 1..Len(relays) |-> FALSE],
                   result |-> [status |-> "pending", message |-> <<>>]]
    /\ UNCHANGED <<now, relayStore, relayLists, cache, calls, published, resolver, publisher, pools, selected, nodeVars>>

\* publish up to the await in _publishToRelays
PublishStart(relays, sk, payload, identifier, recipientPubkey, public, privateLocator, ids) ==
    \E id \in ids :
        LET signedEvent == PublishEvent(sk, payload, identifier, recipientPubkey,
                                        public, privateLocator, id)
        IN  /\ HashOf(signedEvent.sig.body, id)
            /\ StartPublishing(relays, signedEvent,
                   Logged("publish", signedEvent, payload, identifier,
                          IF recipientPubkey = "" THEN {} ELSE {recipientPubkey}, public))

\* publishWrapped up to the await in _publishToRelays
PublishWrappedStart(relays, sk, recipients, payload, identifier, privateLocator, ids) ==
    \E id \in ids, sessionKey \in SessionSecrets :
        LET signedEvent == PublishWrappedEvent(sk, sessionKey, recipients, payload,
                                               identifier, privateLocator, id)
        IN  /\ HashOf(signedEvent.sig.body, id)
            /\ StartPublishing(relays, signedEvent,
                   Logged("publishWrapped", signedEvent, payload, identifier,
                          recipients, FALSE))

\* publish called with a string for the key: toSigner converts it before
\* anything else is done
PublishKeyStart(relays, signerInput, payload, identifier, ids) ==
    LET signer == toSigner(signerInput)
    IN  IF signer.status # "ok"
        THEN /\ pubCall.pc \in {"idle", "done"}
             /\ pubCall' = [IdlePublish EXCEPT
                                !.pc = "done",
                                !.logged = [op |-> "publish", keyInput |-> signerInput],
                                !.result = [status |-> signer.status, message |-> <<>>]]
             /\ UNCHANGED <<now, relayStore, relayLists, cache, calls, published,
                            resolver, publisher, pools, selected, nodeVars>>
        ELSE \E id \in ids :
                 LET signedEvent == PublishEvent(signer.sk, payload, identifier, "",
                                                 TRUE, FALSE, id)
                 IN  /\ HashOf(signedEvent.sig.body, id)
                     /\ StartPublishing(relays, signedEvent,
                            Logged("publish", signedEvent, payload, identifier, {}, TRUE)
                                @@ [keyInput |-> signerInput])

\* An acknowledgement that is counted whenever it arrives
RelayAcceptsCountsLate(i) ==
    /\ pubCall.pc \in {"waiting", "done"}
    /\ i \in 1..Len(pubCall.relays)
    /\ ~pubCall.acknowledged[i]
    /\ relayStore' = [relayStore EXCEPT ![pubCall.relays[i]] = @ \cup {pubCall.event}]
    /\ pubCall' = [pubCall EXCEPT !.acknowledged[i] = TRUE,
                                  !.promise[i] = "fulfilled"]
    /\ UNCHANGED <<now, relayLists, cache, calls, published, resolver, publisher, pools, selected, nodeVars>>

\* The relay of entry i stores the event and acknowledges: p.then clears the
\* timer and resolves the wrapped promise, which has no effect on a promise
\* that the timer has rejected
RelayAccepts(i) ==
    /\ pubCall.pc \in {"waiting", "done"}
    /\ i \in 1..Len(pubCall.relays)
    /\ ~pubCall.acknowledged[i]
    /\ relayStore' = [relayStore EXCEPT ![pubCall.relays[i]] = @ \cup {pubCall.event}]
    /\ pubCall' = [pubCall EXCEPT !.acknowledged[i] = TRUE,
                                  !.promise[i] = IF @ = "pending" THEN "fulfilled" ELSE @]
    /\ UNCHANGED <<now, relayLists, cache, calls, published, resolver, publisher, pools, selected, nodeVars>>

\* The relay of entry i refuses, or cannot be reached: p.catch clears the
\* timer and rejects the wrapped promise with the error
RelayRejects(i, err) ==
    /\ pubCall.pc \in {"waiting", "done"}
    /\ i \in 1..Len(pubCall.relays)
    /\ ~pubCall.acknowledged[i]
    /\ pubCall' = [pubCall EXCEPT !.acknowledged[i] = TRUE,
                                  !.promise[i] = IF @ = "pending" THEN "rejected" ELSE @,
                                  !.reason[i] = IF pubCall.promise[i] = "pending"
                                                THEN err ELSE @]
    /\ UNCHANGED <<now, relayStore, relayLists, cache, calls, published, resolver, publisher, pools, selected, nodeVars>>

\* The timer of entry i fires before it was cleared: NCC05TimeoutError
PublishTimer(i) ==
    /\ pubCall.pc = "waiting"
    /\ i \in 1..Len(pubCall.relays)
    /\ pubCall.promise[i] = "pending"
    /\ pubCall' = [pubCall EXCEPT !.promise[i] = "rejected",
                                  !.reason[i] = TimedOut]
    /\ UNCHANGED <<now, relayStore, relayLists, cache, calls, published, resolver, publisher, pools, selected, nodeVars>>

\* results.filter(rejected).map(reason.message).join(', '): the messages in
\* the order of the relay list
RECURSIVE JoinReasons(_, _)
JoinReasons(promise, reason) ==
    IF promise = <<>> THEN <<>>
    ELSE (IF Head(promise) = "rejected" THEN <<MessageOf(Head(reason))>> ELSE <<>>)
             \o JoinReasons(Tail(promise), Tail(reason))

\* Promise.allSettled has all results: NCC05RelayError when none is
\* fulfilled, else the call returns the signed event
PublishSettles ==
    LET successful == {i \in 1..Len(pubCall.relays) : pubCall.promise[i] = "fulfilled"}
    IN  /\ pubCall.pc = "waiting"
        /\ \A i \in 1..Len(pubCall.relays) : pubCall.promise[i] # "pending"
        /\ IF successful = {}
           THEN /\ pubCall' = [pubCall EXCEPT !.pc = "done",
                        !.result = [status |-> "RelayError",
                                    message |-> JoinReasons(pubCall.promise, pubCall.reason)]]
                /\ UNCHANGED published
           ELSE /\ pubCall' = [pubCall EXCEPT !.pc = "done",
                        !.result = [status |-> "event", message |-> <<>>]]
                /\ published' = Append(published, pubCall.logged)
        /\ UNCHANGED <<now, relayStore, relayLists, cache, calls, resolver, publisher, pools, selected, nodeVars>>

-----------------------------------------------------------------------------
(* SpecPublish: publish and publishWrapped against relays that accept,      *)
(* refuse, answer late or never answer. The list of relays is any list of   *)
(* up to MaxRelayList urls, the empty one included. The steps certain to    *)
(* happen are the firing of a timer that is set and the continuation of     *)
(* Promise.allSettled.                                                      *)

RelayListsGiven == UNION {[1..n -> Relays] : n \in 0..MaxRelayList}

RejectReasons == {ErrorReason("blocked"), OtherReason("unreachable")}

PublishStartStep ==
    \E relays \in RelayListsGiven :
        PublishStart(relays, SecretKey("A"), Payload(now, 1, "u1"), "addr", "",
                     TRUE, FALSE, FirstFreeId)

PublishWrappedStartStep ==
    \E relays \in RelayListsGiven :
        PublishWrappedStart(relays, SecretKey("A"), {"B"}, Payload(now, 1, "u2"),
                            "addr", FALSE, FirstFreeId)

AcceptStep == \E i \in 1..MaxRelayList : RelayAccepts(i)

RejectStep == \E i \in 1..MaxRelayList, err \in RejectReasons : RelayRejects(i, err)

TimerStep == \E i \in 1..MaxRelayList : PublishTimer(i)

NextPublish ==
    \/ PublishStartStep
    \/ PublishWrappedStartStep
    \/ AcceptStep
    \/ RejectStep
    \/ TimerStep
    \/ PublishSettles

SpecPublish ==
    /\ Init
    /\ [][NextPublish]_vars
    /\ \A i \in 1..MaxRelayList : WF_vars(PublishTimer(i))
    /\ WF_vars(PublishSettles)

\* The publish call has settled
Settled == pubCall.pc = "done"

\* Entries of the relay list whose relay accepted the event in time
Accepting == {i \in 1..Len(pubCall.relays) : pubCall.promise[i] = "fulfilled"}

\* The failure reasons of the relays, in the order of the relay list
RECURSIVE FailureReasons(_, _)
FailureReasons(promise, reason) ==
    IF promise = <<>> THEN <<>>
    ELSE (IF Head(promise) = "rejected" THEN <<Head(reason).text>> ELSE <<>>)
             \o FailureReasons(Tail(promise), Tail(reason))

\* C16 (partial publish success): for every relay list, the empty one
\* included, and every combination of per-relay outcomes, a settled publish
\* or publishWrapped call has returned the signed event iff at least one
\* relay accepted it; otherwise it has failed with RelayError, and the
\* message of that error is made of the failure reasons of the relays.
C16_PartialPublishSuccess ==
    Settled =>
        /\ (pubCall.result.status = "event") <=> (Accepting # {})
        /\ (Accepting = {}) =>
              /\ pubCall.result.status = "RelayError"
              /\ pubCall.result.message =
                     FailureReasons(pubCall.promise, pubCall.reason)

-----------------------------------------------------------------------------
(* SpecRound: target A publishes public records whose caps and notes are    *)
(* any of a few texts, records encrypted for itself or for B and wrapped    *)
(* records to relay r1; a resolver with default options resolves A with no  *)
(* signer or with the key of A or B.                                        *)

CapsGiven == {<<>>, <<"wraps">>, <<"wraps", "ciphertext">>}

NotesGiven == {"", "ciphertext"}

RoundSigners == {NoSigner, SecretKey("A"), SecretKey("B")}

RoundPublicStep ==
    \E caps \in CapsGiven, notes \in NotesGiven :
        Publish({"r1"}, {"r1"}, SecretKey("A"), PayloadWith(now, 1, "u1", caps, notes),
                "addr", "", TRUE, FALSE, FirstFreeId)

RoundPrivateStep ==
    \E recipientPubkey \in {"", "B"} :
        Publish({"r1"}, {"r1"}, SecretKey("A"), Payload(now, 1, "u1"), "addr",
                recipientPubkey, FALSE, FALSE, FirstFreeId)

RoundWrappedStep ==
    \E recipients \in SUBSET {"B"} :
        PublishWrapped({"r1"}, {"r1"}, SecretKey("A"), recipients,
                       Payload(now, 1, "u2"), "addr", FALSE, FirstFreeId)

RoundResolveStep ==
    \E signer \in RoundSigners : ResolveEnter(1, "resolve", "A", signer, "addr", FALSE, FALSE)

RoundQueryStep ==
    \E result \in SeqsUpTo(Deliverable(1), MaxResults) : QueryAnswer(1, result)

NextRound ==
    \/ Tick
    \/ RoundPublicStep
    \/ RoundPrivateStep
    \/ RoundWrappedStep
    \/ RoundResolveStep
    \/ RoundQueryStep

SpecRound == Init /\ [][NextRound]_vars

C20_PublicRoundTrip ==
    \A c \in Calls : \A i \in 1..Len(published) :
        (/\ Answered(c)
         /\ published[i].op = "publish"
         /\ published[i].public
         /\ published[i].identifier = calls[c].identifier
         /\ Newest(c, published[i].event))
        => /\ calls[c].outcome.status = "payload"
           /\ calls[c].outcome.payload.endpoints = published[i].payload.endpoints

-----------------------------------------------------------------------------
(* Claims on the modes of publish, checked under SpecDeliver *)

\* Entries of the log made by publish with neither public nor recipientPubkey
SelfPublished ==
    {i \in 1..Len(published) :
        /\ published[i].op = "publish"
        /\ ~published[i].public
        /\ published[i].recipients = {}}

\* C21 (self round trip): when publish with neither public nor
\* recipientPubkey put a payload on the relays, the content the relays store
\* does not begin with '{', and a resolve of the publisher's pubkey that found
\* no cache entry, was made with the publisher's own key (the group key of
\* resolveAsGroup) and received that event as the newest of the publisher
\* returned the published payload.
C21_SelfRoundTrip ==
    \A i \in SelfPublished :
        /\ \A r \in Relays : \A e \in relayStore[r] :
               e.id = published[i].event.id => ~StartsWithBrace(e.content)
        /\ \A c \in Calls :
               (/\ Answered(c)
                /\ calls[c].signer = SecretKey(published[i].event.pubkey)
                /\ calls[c].hexPubkey = published[i].event.pubkey
                /\ calls[c].identifier = published[i].identifier
                /\ Newest(c, published[i].event))
               => /\ calls[c].outcome.status = "payload"
                  /\ calls[c].outcome.payload = published[i].payload

\* C21 witness: a self-encrypted record published behind a record for B, both
\* delivered to a call made with the publisher's key, which got the payload
C21_Witness ==
    \E i \in SelfPublished : \E c \in Calls :
        /\ Answered(c)
        /\ calls[c].signer = SecretKey("A")
        /\ Newest(c, published[i].event)
        /\ Cardinality(ValidReceived(c)) = 2
        /\ published[i].event \in relayStore["r1"]
        /\ calls[c].outcome.status = "payload"
        /\ calls[c].outcome.payload = published[i].payload

\* C22 (publish mode selection): the content of every event publish built is
\* the plaintext JSON of the payload iff options.public is true, whatever
\* recipientPubkey is; otherwise it is that JSON encrypted under the
\* conversation key of the publisher with recipientPubkey when one is given,
\* and under the conversation key of the publisher with itself when none is.
C22_PublishModeSelection ==
    \A i \in 1..Len(published) :
        published[i].op = "publish" =>
            LET e == published[i].event
                json == [form |-> "json", value |-> published[i].payload]
                recipients == published[i].recipients
            IN  /\ published[i].public <=> e.content = json
                /\ (~published[i].public /\ recipients # {}) =>
                       \E rPk \in recipients :
                           /\ recipients = {rPk}
                           /\ e.content = [form |-> "nip44", key |-> {e.pubkey, rPk},
                                           plain |-> json]
                /\ (~published[i].public /\ recipients = {}) =>
                       e.content = [form |-> "nip44", key |-> {e.pubkey}, plain |-> json]

\* C22 witness: publish was called with public and a recipientPubkey and
\* built a plaintext event, and was called with the recipientPubkey alone and
\* built an encrypted one
C22_Witness ==
    \E i, j \in 1..Len(published) :
        /\ published[i].op = "publish" /\ published[j].op = "publish"
        /\ published[i].public /\ published[i].recipients = {"B"}
        /\ published[i].event.content.form = "json"
        /\ ~published[j].public /\ published[j].recipients = {"B"}
        /\ published[j].event.content.form = "nip44"

-----------------------------------------------------------------------------
(* Further claims checked under SpecFresh *)

\* C23 (TTL is never extended): the expires of every cache entry is
\* min(E, updated_at + ttl) of the event and the payload the entry was built
\* from, E being the integer value of the event's expiration tag when it has
\* one that is finite and +infinity otherwise; and no call is served from the
\* cache in a second now >= updated_at + ttl of the payload it is given.
C23_TtlNeverExtended ==
    /\ [](\A key \in DOMAIN cache :
              LET e == cache[key].event
                  tag == TagValue(e.tags, "expiration")
                  calculated == PayloadOf(e).updated_at + PayloadOf(e).ttl
              IN  cache[key].expires =
                      IF tag.has /\ tag.value = "1" /\ 1 < calculated
                      THEN 1 ELSE calculated)
    /\ [][\A c \in Calls :
              (calls[c].pc = "idle" /\ calls'[c].outcome.how = "hit")
              => now < calls'[c].outcome.payload.updated_at
                           + calls'[c].outcome.payload.ttl]_vars

\* C23 witness: an event with expiration tag 1 and updated_at + ttl = 2 was
\* fetched and cached by the first call, and the second call was served the
\* payload from the cache, whose entry expires at 1
C23_Witness ==
    \E key \in DOMAIN cache :
        /\ TagValue(cache[key].event.tags, "expiration").value = "1"
        /\ cache[key].payload.updated_at + cache[key].payload.ttl = 2
        /\ cache[key].expires = 1
        /\ calls[1].pc = "done" /\ calls[1].outcome.how = "stored"
        /\ calls[2].pc = "done" /\ calls[2].outcome.how = "hit"
        /\ calls[2].outcome.event = cache[key].event

-----------------------------------------------------------------------------
(* Further claims checked under SpecIdent *)

\* A returned call that was a resolveLatest(target, signer)
ReturnedLatest(c) == calls[c].pc = "done" /\ calls[c].identifier = NoIdentifier

-----------------------------------------------------------------------------
(* SpecCache: the cache of one resolver under overlapping calls.            *)
(* A publishes public records with ttl 0 or 1 and records encrypted for B   *)
(* under "addr"; resolve calls for "addr", strict or not, with no signer or *)
(* with C's key, and resolveLatest calls overlap; a query is answered,      *)
(* times out or fails.                                                      *)

CachePublishStep ==
    \E ttl \in {0, 1}, public \in BOOLEAN :
        Publish({"r1"}, {"r1"}, SecretKey("A"), Payload(now, ttl, "u1"), "addr",
                IF public THEN "" ELSE "B", public, FALSE, FirstFreeId)

CacheResolveStep ==
    \E c \in Calls, strict \in BOOLEAN, signer \in {NoSigner, SecretKey("C")} :
        /\ \A d \in Calls : d < c => calls[d].pc # "idle"
        /\ ResolveEnter(c, "resolve", "A", signer, "addr", strict, FALSE)

CacheLatestStep ==
    \E c \in Calls :
        /\ \A d \in Calls : d < c => calls[d].pc # "idle"
        /\ ResolveEnter(c, "resolveLatest", "A", NoSigner, NoIdentifier, FALSE, FALSE)

FailStep == \E c \in Calls : QueryFails(c)

NextCache ==
    \/ Tick
    \/ CachePublishStep
    \/ CacheResolveStep
    \/ CacheLatestStep
    \/ QueryStep
    \/ TimeoutStep
    \/ FailStep

SpecCache == Init /\ [][NextCache]_vars

\* The keys under which the cache differs between this state and the next
ChangedKeys ==
    {key \in DOMAIN cache \cup DOMAIN cache' :
        \/ key \notin DOMAIN cache
        \/ key \notin DOMAIN cache'
        \/ cache[key] # cache'[key]}

\* C25 (cache frame): the cache changes under a key only when (a) a resolve
\* or resolveLatest call for that key returns the payload of a record that
\* had not expired when the call was made, the entry then being that payload
\* with the expiry of the record, or (b) a call that looks the key up finds
\* an entry under it that has expired and deletes it; a call that returns
\* null, fails with TimeoutError, RelayError or DecryptionError, or returns
\* the payload of an expired record leaves the cache as it is.
C25_CacheFrame ==
    [][/\ \A key \in ChangedKeys :
              \E c \in Calls :
                  \/ /\ calls[c].pc = "query" /\ calls'[c].pc = "done"
                     /\ key = CacheKey(calls[c].op, calls[c].hexPubkey, calls[c].identifier)
                     /\ calls'[c].outcome.status = "payload"
                     /\ key \in DOMAIN cache'
                     /\ cache'[key].payload = calls'[c].outcome.payload
                     /\ cache'[key].expires =
                            PayloadOf(calls'[c].outcome.event).updated_at
                                + PayloadOf(calls'[c].outcome.event).ttl
                     /\ calls[c].now <= cache'[key].expires
                  \/ /\ calls[c].pc = "idle" /\ calls'[c].pc = "query"
                     /\ key = CacheKey(calls'[c].op, calls'[c].hexPubkey,
                                       calls'[c].identifier)
                     /\ key \in DOMAIN cache
                     /\ cache[key].expires <= now
                     /\ key \notin DOMAIN cache'
       /\ \A c \in Calls :
              (/\ calls[c].pc = "query" /\ calls'[c].pc = "done"
               /\ \/ calls'[c].outcome.status
                         \in {"null", "TimeoutError", "RelayError", "DecryptionError"}
                  \/ /\ calls'[c].outcome.status = "payload"
                     /\ calls[c].now > PayloadOf(calls'[c].outcome.event).updated_at
                                           + PayloadOf(calls'[c].outcome.event).ttl)
              => cache' = cache
      ]_vars

\* C25 witness: the cache holds an entry under the key of resolveLatest that
\* the first call stored, while the second call, a resolve made with C's key
\* that selected a record encrypted for B, failed with DecryptionError
C25_Witness ==
    /\ DOMAIN cache = {CacheKey("resolveLatest", "A", NoIdentifier)}
    /\ calls[1].pc = "done" /\ calls[1].outcome.how = "stored"
    /\ calls[1].identifier = NoIdentifier
    /\ cache[CacheKey("resolveLatest", "A", NoIdentifier)].payload = calls[1].outcome.payload
    /\ calls[2].pc = "done" /\ calls[2].outcome.status = "DecryptionError"
    /\ calls[2].identifier = "addr"

-----------------------------------------------------------------------------
(* SpecGossip: relay discovery. A or B publishes a relay list that names r2 *)
(* or r1, r2 and r2 again; the bootstrap relay may hand out a copy of it    *)
(* that names A as the author; A publishes a public record to r1 or to r2;  *)
(* resolve calls with and without options.gossip follow one another, and    *)
(* the relay list request is answered or fails.                             *)

GossipListStep ==
    \E k \in {"A", "B"}, urls \in {<<"r2">>, <<"r1", "r2", "r2">>} :
        PublishRelayList(SecretKey(k), urls)

GossipForgeStep == RelayListTampers("A")

GossipPublishStep ==
    \E r \in Relays :
        Publish({r}, {r}, SecretKey("A"), Payload(now, 1, "u1"), "addr", "",
                TRUE, FALSE, FirstFreeId)

GossipResolveStep ==
    \E c \in Calls, gossip \in BOOLEAN :
        /\ \A d \in Calls : d < c => calls[d].pc = "done"
        /\ ResolveEnter(c, "resolve", "A", NoSigner, "addr", FALSE, gossip)

GossipFailStep == \E c \in Calls : GossipFails(c)

NextGossip ==
    \/ Tick
    \/ GossipListStep
    \/ GossipForgeStep
    \/ GossipPublishStep
    \/ GossipResolveStep
    \/ GossipStep
    \/ GossipFailStep
    \/ QueryStep

SpecGossip == Init /\ [][NextGossip]_vars

\* The call has its relay set and is about to send the kind-30058 query
Querying(c) == calls[c].pc = "query"

\* C26 (gossip relay set): the relay list a call sends the kind-30058 query
\* to contains every bootstrap relay; a relay in it that is not a bootstrap
\* relay is there only if the call has gossip enabled and the relay is an
\* r-tag value of a kind-10002 event that verifies and whose pubkey is the
\* target; no relay is in it twice; and when the gossip lookup fails the
\* list is exactly the bootstrap list and the call goes on to the query.
C26_GossipRelaySet ==
    /\ [](\A c \in Calls :
              Querying(c) =>
                  LET q == calls[c].queryRelays
                      bootstrap == {bootstrapRelays[i] : i \in 1..Len(bootstrapRelays)}
                  IN  /\ \A b \in bootstrap : \E i \in 1..Len(q) : q[i] = b
                      /\ \A i \in 1..Len(q) :
                             q[i] \notin bootstrap =>
                                 /\ calls[c].gossip
                                 /\ \E e \in relayLists :
                                        /\ e.kind = 10002
                                        /\ verifyEvent(e)
                                        /\ e.pubkey = calls[c].hexPubkey
                                        /\ \E j \in 1..Len(e.tags) : e.tags[j] = <<"r", q[i]>>
                      /\ \A i, j \in 1..Len(q) : q[i] = q[j] => i = j)
    /\ [][\A c \in Calls :
              GossipFails(c) => /\ Querying(c)'
                                /\ calls'[c].queryRelays = bootstrapRelays]_vars

\* C26 witness: A's relay list names r1, r2 and r2 again, and a call with
\* gossip enabled is about to query r1 and r2, r2 holding A's record
C26_Witness ==
    \E c \in Calls : \E e \in relayLists :
        /\ Querying(c)
        /\ calls[c].gossip
        /\ verifyEvent(e) /\ e.pubkey = "A"
        /\ RTagValues(e.tags) = <<"r1", "r2", "r2">>
        /\ calls[c].queryRelays = <<"r1", "r2">>
        /\ relayStore["r1"] = {} /\ relayStore["r2"] # {}

\* C27 (resolveLatest): a resolveLatest call that found no cache entry and
\* received valid events of the author returned the payload of the one with
\* the greatest created_at, the smaller id deciding between events of one
\* second, whatever the d tags of the events are.
C27_ResolveLatest ==
    \A c \in Calls : \A w \in ValidReceived(c) :
        (/\ ReturnedLatest(c)
         /\ Answered(c)
         /\ \A o \in ValidReceived(c) \ {w} :
                \/ o.created_at < w.created_at
                \/ o.created_at = w.created_at /\ localeCompare(w.id, o.id) < 0)
        => /\ calls[c].outcome.status = "payload"
           /\ calls[c].outcome.event = w
           /\ calls[c].outcome.payload = PayloadOf(w)

\* C27 witness: a resolveLatest call received a record under "addr" and a
\* newer one under "alt", the older one first, and returned the payload of
\* the one under "alt"
C27_Witness ==
    \E c \in Calls :
        /\ ReturnedLatest(c)
        /\ Answered(c)
        /\ Len(calls[c].received) = 2
        /\ TagValue(calls[c].received[1].tags, "d").value = "addr"
        /\ TagValue(calls[c].received[2].tags, "d").value = "alt"
        /\ calls[c].received[1].created_at < calls[c].received[2].created_at
        /\ calls[c].outcome.status = "payload"
        /\ calls[c].outcome.event = calls[c].received[2]

-----------------------------------------------------------------------------
(* SpecTransform: a resolver constructed with a urlTransformer. A publishes *)
(* public records with ttl 0 or 1; resolve and resolveLatest calls, strict  *)
(* or not, follow one another while the clock advances.                     *)

InitTransform ==
    Constructed([pool |-> NoPool, urlTransformer |-> TRUE], [pool |-> NoPool])

TransformResolveStep ==
    \E c \in Calls, op \in SpecOps, strict \in BOOLEAN :
        /\ \A d \in Calls : d < c => calls[d].pc = "done"
        /\ ResolveEnter(c, op, "A", NoSigner,
                        IF op = "resolve" THEN "addr" ELSE NoIdentifier, strict, FALSE)

NextTransform ==
    \/ Tick
    \/ PublishStep
    \/ TransformResolveStep
    \/ QueryStep

SpecTransform == InitTransform /\ [][NextTransform]_vars

\* C28 (URL transformer applied exactly once): with a urlTransformer
\* configured, every payload a resolve or resolveLatest call returned,
\* whether fetched, returned although expired, or taken from the cache, has
\* as its endpoints the transformer's results for the endpoints of the
\* published payload, the transformer applied once to each.
C28_TransformerOnce ==
    \A c \in Calls :
        (calls[c].pc = "done" /\ calls[c].outcome.status = "payload")
        => LET p == PayloadOf(calls[c].outcome.event)
           IN  /\ Len(calls[c].outcome.payload.endpoints) = Len(p.endpoints)
               /\ \A i \in 1..Len(p.endpoints) :
                      calls[c].outcome.payload.endpoints[i] =
                          [p.endpoints[i] EXCEPT !.url = <<"socks5h", p.endpoints[i].url>>]

\* C28 witness: the first call fetched a record and returned it transformed;
\* the second call was served the payload from the cache
C28_Witness ==
    /\ resolver.urlTransformer
    /\ calls[1].pc = "done" /\ calls[1].outcome.how = "stored"
    /\ calls[2].pc = "done" /\ calls[2].outcome.how = "hit"
    /\ calls[2].outcome.payload = calls[1].outcome.payload
    /\ calls[2].outcome.payload.endpoints[1].url = <<"socks5h", "u1">>

-----------------------------------------------------------------------------
(* close() *)

\* A close that does not look at _ownPool
ResolverCloseAlways ==
    /\ resolver.closeCalls < MaxCloses
    /\ resolver' = [resolver EXCEPT !.closeCalls = @ + 1]
    /\ pools' = [pools EXCEPT ![resolver.pool] = Append(@, bootstrapRelays)]
    /\ UNCHANGED <<now, relayStore, relayLists, cache, calls, published, pubCall, publisher, selected, nodeVars>>

\* NCC05Resolver.close(): this.pool.close(this.bootstrapRelays) if the
\* resolver made the pool
ResolverClose ==
    /\ resolver.closeCalls < MaxCloses
    /\ resolver' = [resolver EXCEPT !.closeCalls = @ + 1]
    /\ pools' = IF resolver._ownPool
                THEN [pools EXCEPT ![resolver.pool] = Append(@, bootstrapRelays)]
                ELSE pools
    /\ UNCHANGED <<now, relayStore, relayLists, cache, calls, published, pubCall, publisher, selected, nodeVars>>

\* NCC05Publisher.close(relays): this.pool.close(relays) if the publisher
\* made the pool
PublisherClose(relays) ==
    /\ publisher.closeCalls < MaxCloses
    /\ publisher' = [publisher EXCEPT !.closeCalls = @ + 1]
    /\ pools' = IF publisher._ownPool
                THEN [pools EXCEPT ![publisher.pool] = Append(@, relays)]
                ELSE pools
    /\ UNCHANGED <<now, relayStore, relayLists, cache, calls, published, pubCall, resolver, selected, nodeVars>>

-----------------------------------------------------------------------------
(* SpecOwn: a resolver and a publisher, each constructed with or without a  *)
(* pool of the application (one shared pool, or for the resolver the pool   *)
(* the publisher made); records are published and resolved, and close() is  *)
(* called on either at any time.                                            *)

InitOwn ==
    \E resolverPool \in {NoPool, "sharedPool", "publisherPool"},
       publisherPool \in {NoPool, "sharedPool"} :
        Constructed([pool |-> resolverPool, urlTransformer |-> FALSE],
                    [pool |-> publisherPool])

OwnResolveStep ==
    \E c \in Calls :
        /\ \A d \in Calls : d < c => calls[d].pc = "done"
        /\ ResolveEnter(c, "resolve", "A", NoSigner, "addr", FALSE, FALSE)

PublisherCloseStep == \E relays \in {<<"r1">>, <<"r1", "r2">>} : PublisherClose(relays)

NextOwn ==
    \/ Tick
    \/ TimeoutPublishStep
    \/ OwnResolveStep
    \/ QueryStep
    \/ ResolverClose
    \/ PublisherCloseStep

SpecOwn == InitOwn /\ [][NextOwn]_vars

\* The close() calls that must have reached pool `p`: those made on an
\* object that created `p`
OwnerCloses(p) ==
    (IF resolver._ownPool /\ resolver.pool = p THEN resolver.closeCalls ELSE 0)
        + (IF publisher._ownPool /\ publisher.pool = p THEN publisher.closeCalls ELSE 0)

\* C29 (pool ownership): the ownership flag and the pool of the resolver and
\* of the publisher never change after construction; the flag is set exactly
\* when no pool was supplied; and every pool has been closed once for each
\* close() made on an object that created it and not at all by a close() on
\* an object it was supplied to.
C29_PoolOwnership ==
    /\ [][/\ resolver'._ownPool = resolver._ownPool
          /\ resolver'.pool = resolver.pool
          /\ publisher'._ownPool = publisher._ownPool
          /\ publisher'.pool = publisher.pool]_vars
    /\ [](/\ resolver._ownPool <=> resolver.pool = "resolverPool"
          /\ publisher._ownPool <=> publisher.pool = "publisherPool"
          /\ \A p \in Pools : Len(pools[p]) = OwnerCloses(p))

\* C29 witness: close() was called on a resolver that was given the
\* publisher's pool and on the publisher that made it: the pool was closed
\* once, with the relays handed to the publisher's close
C29_Witness ==
    /\ ~resolver._ownPool /\ resolver.pool = "publisherPool"
    /\ publisher._ownPool
    /\ resolver.closeCalls = 1 /\ publisher.closeCalls = 1
    /\ pools["publisherPool"] = <<<<"r1", "r2">>>>
    /\ published # <<>>

-----------------------------------------------------------------------------
(* SpecValid: contents that are not a locator record.                       *)
(* Other software holding the key of A puts events under "addr" whose text  *)
(* is no JSON, or JSON with endpoints missing or not an array, or with a    *)
(* ttl or updated_at that is missing or a string; it writes the text as it  *)
(* is or encrypts it for B, once. A publishes a well-formed public record.  *)
(* resolve is called with no key or with the key of B.                      *)

\* JSON texts of objects that are not an NCC05Payload
InvalidDocuments ==
    {JsonDocument([v |-> 1, ttl |-> 1, updated_at |-> 0], <<>>),
     JsonDocument([v |-> 1, ttl |-> 1, updated_at |-> 0, endpoints |-> <<>>],
                  [endpoints |-> "object"]),
     JsonDocument([v |-> 1, ttl |-> 1, updated_at |-> 0,
                   endpoints |-> <<Endpoint("u1")>>],
                  [ttl |-> "string"]),
     JsonDocument([v |-> 1, ttl |-> 1, updated_at |-> 0,
                   endpoints |-> <<Endpoint("u1")>>],
                  [updated_at |-> "string"]),
     JsonDocument([v |-> 1, updated_at |-> 0, endpoints |-> <<Endpoint("u1")>>], <<>>)}

InvalidTexts == {PlainText, BrokenJson} \cup InvalidDocuments

ValidPublishStep ==
    /\ AllEvents = {}
    /\ Publish({"r1"}, {"r1"}, SecretKey("A"), Payload(now, 1, "u1"), "addr", "",
               TRUE, FALSE, FirstFreeId)

InvalidPublishStep ==
    \E text \in InvalidTexts, public \in BOOLEAN :
        /\ Cardinality(AllEvents) < MaxEvents
        /\ \A i \in 1..Len(published) : published[i].op # "text"
        /\ ForeignPublishText({"r1"}, SecretKey("A"), text, "addr", "B", public, FirstFreeId)

ValidResolveStep ==
    \E c \in Calls, signer \in {NoSigner, SecretKey("B")} :
        /\ \A d \in Calls : d < c => calls[d].pc = "done"
        /\ ResolveEnter(c, "resolve", "A", signer, "addr", FALSE, FALSE)

ValidQueryStep ==
    \E c \in Calls : \E result \in SeqsUpTo(Deliverable(c), MaxResults) :
        QueryAnswer(c, result)

NextValid ==
    \/ Tick
    \/ ValidPublishStep
    \/ InvalidPublishStep
    \/ ValidResolveStep
    \/ ValidQueryStep

SpecValid == Init /\ [][NextValid]_vars

\* The text the author of `e` wrote: the content, or what was encrypted
TextWritten(e) == IF e.content.form = "nip44" THEN e.content.plain ELSE e.content

\* `e` was made by the key owner with a text that is not a locator record
InvalidContent(e) ==
    \E i \in 1..Len(published) : published[i].event = e /\ published[i].op = "text"

\* The call's key gives it the text of `e`: the text was not encrypted and
\* the call has no key or the text opens with a brace, or it was encrypted
\* for the call's key
ContentReached(c, e) ==
    \E i \in 1..Len(published) :
        /\ published[i].event = e
        /\ IF published[i].public
           THEN calls[c].signer = NoSigner \/ StartsWithBrace(TextWritten(e))
           ELSE /\ calls[c].signer # NoSigner
                /\ getPublicKey(calls[c].signer) \in published[i].recipients

\* C30 (payload validation): a resolve whose selected event (the newest
\* valid event it received) has a decrypted content that is not parseable
\* JSON, or whose endpoints member is missing or not an array, or whose ttl
\* or updated_at is not a number, returned null and raised no error; and the
\* step in which such a call returns leaves the cache as it was.
C30_PayloadValidation ==
    /\ [](\A c \in Calls : \A e \in ValidReceived(c) :
             (/\ Answered(c)
              /\ ReturnedResolve(c)
              /\ Newest(c, e)
              /\ InvalidContent(e)
              /\ ContentReached(c, e))
             => calls[c].outcome.status = "null")
    /\ [][\A c \in Calls :
             (/\ calls[c].pc = "query"
              /\ calls'[c].pc = "done"
              /\ \E e \in ValidReceived(c)' :
                     /\ Newest(c, e)'
                     /\ InvalidContent(e)
                     /\ ContentReached(c, e))
             => cache' = cache]_vars

\* C30 witness: an earlier call returned the well-formed record; a call with
\* the key of B then found its cache entry stale, received a text encrypted
\* for B with a string for ttl, behind the older well-formed record, and
\* returned null; the cache holds nothing
C30_Witness ==
    /\ calls[1].pc = "done" /\ calls[2].pc = "done"
    /\ calls[1].outcome.status = "payload"
    /\ cache = EmptyCache
    /\ calls[2].signer = SecretKey("B")
    /\ calls[2].outcome.status = "null"
    /\ Len(calls[2].received) = 2
    /\ \E e \in ValidReceived(2) :
           /\ Newest(2, e)
           /\ InvalidContent(e)
           /\ ContentReached(2, e)
           /\ e.content.form = "nip44"
           /\ TextWritten(e).form = "json"
           /\ JsonType(TextWritten(e), "ttl") = "string"
    /\ \E e \in ValidReceived(2) : ~InvalidContent(e)

-----------------------------------------------------------------------------
(* SpecKey: keys given as strings.                                          *)
(* A publishes public records with its key as hex text of 64 digits, of 63  *)
(* digits, as nsec text, or with text that is no key; resolve is called     *)
(* with the key of B in the same four ways, at any time, so that the cache  *)
(* may hold a fresh entry for the call's key.                               *)

KeyStrings(sk) == {HexText(64, sk), HexText(63, sk), Nsec(sk), NotAKey}

KeyPublishStep ==
    \E signerInput \in KeyStrings(SecretKey("A")) :
        PublishKeyStart(<<"r1">>, signerInput, Payload(now, 1, "u1"), "addr", FirstFreeId)

KeyResolveStep ==
    \E c \in Calls, signerInput \in KeyStrings(SecretKey("B")) :
        /\ \A d \in Calls : d < c => calls[d].pc = "done"
        /\ ResolveEnterKey(c, "A", signerInput, "addr", FALSE)

NextKey ==
    \/ Tick
    \/ KeyPublishStep
    \/ AcceptStep
    \/ PublishSettles
    \/ KeyResolveStep
    \/ QueryStep

SpecKey == Init /\ [][NextKey]_vars

\* A string that is neither hex text of even length nor nsec text
InvalidKeyString(key) ==
    /\ key.form # "none"
    /\ key.form # "nsec"
    /\ ~(key.form = "hexkey" /\ key.digits % 2 = 0)

\* C31 (ArgumentError is immediate), as claimed: a resolve or publish called
\* with a string that is neither even-length hex text nor nsec text has
\* failed with ArgumentError and no relay was asked, whatever the cache held;
\* a call given nsec text has not failed with ArgumentError and, once it
\* asks the relays, works with the signer of that key.
C31_ArgumentErrorImmediate ==
    /\ \A c \in Calls :
           /\ (calls[c].pc # "idle" /\ InvalidKeyString(calls[c].keyInput))
              => /\ calls[c].pc = "done"
                 /\ calls[c].outcome.status = "ArgumentError"
                 /\ calls[c].received = <<>>
           /\ (calls[c].pc # "idle" /\ calls[c].keyInput.form = "nsec")
              => /\ calls[c].outcome.status # "ArgumentError"
                 /\ calls[c].pc = "query" => calls[c].signer = calls[c].keyInput.of
    /\ (pubCall.pc # "idle" /\ "keyInput" \in DOMAIN pubCall.logged)
       => /\ InvalidKeyString(pubCall.logged.keyInput)
             => /\ pubCall.result.status = "ArgumentError"
                /\ pubCall.relays = <<>>
          /\ pubCall.logged.keyInput.form = "nsec"
             => pubCall.result.status # "ArgumentError"

-----------------------------------------------------------------------------
(* SpecEndpoints: selectEndpoints on every list of up to MaxEndpoints       *)
(* endpoints with or without a priority (0, 10, 1000) and with or without a *)
(* family (the three ranked ones and another), and on the list of the       *)
(* selection test.                                                          *)

EndpointsGiven ==
    {[type |-> "tcp", url |-> url] @@ priority @@ family :
        url \in {"u1", "u2"},
        priority \in {<<>>} \cup {[priority |-> n] : n \in {0, 10, 1000}},
        family \in {<<>>} \cup {[family |-> f] : f \in {"onion", "ipv6", "ipv4", "i2p"}}}

TestedEndpoints ==
    <<[type |-> "tcp", url |-> "u1", family |-> "ipv4", priority |-> 10],
      [type |-> "tcp", url |-> "u2", family |-> "ipv6", priority |-> 10],
      [type |-> "tcp", url |-> "u3", family |-> "onion", priority |-> 10],
      [type |-> "tcp", url |-> "u4", family |-> "ipv4", priority |-> 20]>>

SelectCalled ==
    /\ selected.pc = "idle"
    /\ \E endpoints \in SeqsUpTo(EndpointsGiven, MaxEndpoints) \cup {TestedEndpoints} :
           selected' = [pc |-> "called", argument |-> endpoints, endpoints |-> endpoints,
                        result |-> <<>>]
    /\ UNCHANGED <<now, relayStore, relayLists, cache, calls, published, pubCall,
                   resolver, publisher, pools, nodeVars>>

SelectReturns ==
    /\ selected.pc = "called"
    /\ selected' = [selected EXCEPT !.pc = "returned",
                                    !.result = selectEndpoints(selected.endpoints)]
    /\ UNCHANGED <<now, relayStore, relayLists, cache, calls, published, pubCall,
                   resolver, publisher, pools, nodeVars>>

NextEndpoints == SelectCalled \/ SelectReturns

SpecEndpoints == Init /\ [][NextEndpoints]_vars

\* The order the claim gives: priority (1000 when missing), then the rank of
\* the family, then the place in the input
ClaimedPriority(e) == IF "priority" \in DOMAIN e THEN e.priority ELSE 1000

ClaimedRank(e) ==
    IF "family" \notin DOMAIN e THEN 4
    ELSE IF e.family = "onion" THEN 1
    ELSE IF e.family = "ipv6" THEN 2
    ELSE IF e.family = "ipv4" THEN 3
    ELSE 5

ClaimedBefore(list, i, j) ==
    \/ ClaimedPriority(list[i]) < ClaimedPriority(list[j])
    \/ /\ ClaimedPriority(list[i]) = ClaimedPriority(list[j])
       /\ \/ ClaimedRank(list[i]) < ClaimedRank(list[j])
          \/ ClaimedRank(list[i]) = ClaimedRank(list[j]) /\ i < j

C32_StableWitness ==
    /\ selected.pc = "returned"
    /\ Len(selected.argument) = 3
    /\ selected.argument[3].priority = 0 /\ "priority" \notin DOMAIN selected.argument[1]
    /\ selected.result = <<selected.argument[3], selected.argument[1], selected.argument[2]>>
    /\ selected.argument[1] # selected.argument[2]
    /\ CompareEndpoints(selected.argument[1], selected.argument[2]) = 0

-----------------------------------------------------------------------------
(* SpecIsolate: callers with different keys on one resolver.                *)
(* A publishes an encrypted record under "addr": to itself, to B, or        *)
(* wrapped for B. resolve(A, key, "addr") is called twice on the resolver,  *)
(* one call after the other, each with no key or with the key of B or C.    *)

IsolatePublishStep ==
    /\ AllEvents = {}
    /\ \/ \E recipientPubkey \in {"", "B"} :
              Publish({"r1"}, {"r1"}, SecretKey("A"), Payload(now, 2, "u1"), "addr",
                      recipientPubkey, FALSE, FALSE, FirstFreeId)
       \/ PublishWrapped({"r1"}, {"r1"}, SecretKey("A"), {"B"},
                         Payload(now, 2, "u2"), "addr", FALSE, FirstFreeId)

IsolateResolveStep ==
    \E c \in Calls, signer \in {NoSigner, SecretKey("B"), SecretKey("C")} :
        /\ \A d \in Calls : d < c => calls[d].pc = "done"
        /\ ResolveEnter(c, "resolve", "A", signer, "addr", FALSE, FALSE)

NextIsolate ==
    \/ Tick
    \/ IsolatePublishStep
    \/ IsolateResolveStep
    \/ QueryStep

SpecIsolate == Init /\ [][NextIsolate]_vars

\* C33 (cache isolation between callers), as claimed: a call that returned
\* the payload of an encrypted record, fetched or served from the cache, was
\* made with a key that is able to decrypt that record.
C33_CacheIsolation ==
    \A c \in Calls :
        (/\ calls[c].pc = "done"
         /\ calls[c].outcome.status = "payload"
         /\ Genuine(calls[c].outcome.event))
        => calls[c].outcome.event \in Readable(calls[c].signer)

-----------------------------------------------------------------------------
(* SpecStrict: strict mode under a moving clock.                            *)
(* A publishes public records with a ttl of 0 or 1; resolve is called in    *)
(* strict mode, with or without gossip, and the clock may advance while the *)
(* relay list request or the query is outstanding.                          *)

StrictResolveStep ==
    \E c \in Calls, gossip \in BOOLEAN :
        /\ \A d \in Calls : d < c => calls[d].pc = "done"
        /\ ResolveEnter(c, "resolve", "A", NoSigner, "addr", TRUE, gossip)

NextStrict ==
    \/ Tick
    \/ PublishStep
    \/ RelayListStep
    \/ StrictResolveStep
    \/ GossipStep
    \/ QueryStep

SpecStrict == Init /\ [][NextStrict]_vars

\* The expiry of a record: updated_at + ttl of the payload its event was
\* built from, or the expiration tag where that is earlier
ExpiryOf(e) == RecordExpiry(e, PayloadOf(e))

\* C34 (strict freshness at return), as claimed: in the step in which a
\* strict resolve returns a payload, the expiry of the record it returns is
\* not earlier than the clock.
C34_StrictFreshAtReturn ==
    [][\A c \in Calls :
          (/\ calls[c].pc # "done"
           /\ calls'[c].pc = "done"
           /\ calls'[c].strict
           /\ calls'[c].outcome.status = "payload")
          => ExpiryOf(calls'[c].outcome.event) >= now]_vars

-----------------------------------------------------------------------------
(* SpecClose: close() after gossip discovery.                               *)
(* The resolver made its pool. A advertises relay r2 in its relay list and  *)
(* publishes public records; resolve is called with and without gossip, and *)
(* close() is called on the resolver at any time.                           *)

CloseResolveStep ==
    \E c \in Calls, gossip \in BOOLEAN :
        /\ \A d \in Calls : d < c => calls[d].pc = "done"
        /\ ResolveEnter(c, "resolve", "A", NoSigner, "addr", FALSE, gossip)

NextClose ==
    \/ Tick
    \/ PublishStep
    \/ RelayListStep
    \/ CloseResolveStep
    \/ GossipStep
    \/ QueryStep
    \/ ResolverClose

SpecClose == Init /\ [][NextClose]_vars

\* The relays the pool holds a connection to: those it was handed by
\* pool.get and pool.querySync for the calls made so far (the pool keeps a
\* connection until close names its relay)
ConnectedRelays ==
    UNION {{calls[c].queryRelays[i] : i \in 1..Len(calls[c].queryRelays)} : c \in Calls}

\* C35 (close() releases every relay), as claimed: when close() is called on
\* a resolver that made its pool, every relay the pool is connected to for
\* the resolver's calls, those found by gossip included, is among the relays
\* the pool is told to close.
C35_CloseReleasesEveryRelay ==
    [][(resolver'.closeCalls > resolver.closeCalls /\ resolver._ownPool)
       => LET closed == pools'[resolver.pool][Len(pools'[resolver.pool])]
          IN  ConnectedRelays \subseteq {closed[i] : i \in 1..Len(closed)}]_vars

-----------------------------------------------------------------------------
(* P2PNode (ncc-p2p-cli): the WebSocket peer layer.                         *)
(* One node with the identity N. Its server hands it incoming sockets, it   *)
(* opens outgoing ones with connectToPeer; the far side of a socket sends   *)
(* handshakes and data frames while the socket is open and may close it. A  *)
(* data frame is NIP-44 ciphertext made by its sender for N.                *)

Identity == "N"
PeerKeys == {"X", "Y"}

PENDING == "pending"
CONNECTED == "connected"

\* The state of the library that the peer layer does not touch
libVars == <<now, relayStore, relayLists, cache, calls, published, pubCall,
            resolver, publisher, pools, selected>>

\* this.emit(name, ...): the event, the pubkey it carries, and the socket
\* whose handler, or the call that, emitted it
Event(name, pubkey, socket, by) ==
    [name |-> name, pubkey |-> pubkey, socket |-> socket, by |-> by]

\* Map.prototype.set
MapSet(map, key, value) ==
    [k \in DOMAIN map \cup {key} |-> IF k = key THEN value ELSE map[k]]

\* Map.prototype.delete
MapDelete(map, key) == [k \in DOMAIN map \ {key} |-> map[k]]

\* server.on('connection'): handleConnection(ws, null, true) installs the
\* handlers and sends the handshake
IncomingConnection(w) ==
    /\ sockets[w].state = "none"
    /\ sockets' = [sockets EXCEPT ![w] =
           [state |-> "open", isIncoming |-> TRUE, remotePubkey |-> "", sent |-> 1,
            received |-> 0]]
    /\ UNCHANGED <<peers, peerStatus, emitted, acceptCalls, lastCall, libVars>>

\* connectToPeer, once the socket is open: handleConnection(ws, hexPubkey,
\* false) installs the handlers, sends the handshake and registers the peer
\* as CONNECTED
ConnectToPeer(w, targetPubkey) ==
    /\ sockets[w].state = "none"
    /\ sockets' = [sockets EXCEPT ![w] =
           [state |-> "open", isIncoming |-> FALSE, remotePubkey |-> targetPubkey,
            sent |-> 1, received |-> 0]]
    /\ peers' = MapSet(peers, targetPubkey, w)
    /\ peerStatus' = MapSet(peerStatus, targetPubkey, CONNECTED)
    /\ emitted' = Append(emitted, Event("peer:connected", targetPubkey, w, "outgoing"))
    /\ UNCHANGED <<acceptCalls, lastCall, libVars>>

\* The message handler on a handshake frame { type: 'handshake', pubkey }:
\* the node's own key closes the socket; the first handshake of an incoming
\* socket registers the peer as PENDING; any other handshake is ignored
ReceiveHandshake(w, pubkey) ==
    /\ sockets[w].state = "open"
    /\ IF pubkey = Identity
       THEN /\ sockets' = [sockets EXCEPT ![w].state = "closing"]
            /\ UNCHANGED <<peers, peerStatus, emitted>>
       ELSE IF sockets[w].remotePubkey = ""
       THEN /\ sockets' = [sockets EXCEPT ![w].remotePubkey = pubkey]
            /\ peers' = MapSet(peers, pubkey, w)
            /\ peerStatus' = MapSet(peerStatus, pubkey,
                                    IF sockets[w].isIncoming THEN PENDING ELSE CONNECTED)
            /\ emitted' = Append(emitted,
                   Event("peer:connected", pubkey, w,
                         IF sockets[w].isIncoming THEN "incoming" ELSE "outgoing"))
       ELSE UNCHANGED <<peers, peerStatus, sockets, emitted>>
    /\ UNCHANGED <<acceptCalls, lastCall, libVars>>

\* The message handler on a data frame that `sender` encrypted for the
\* node: dropped when no handshake has named a peer or the peer is
\* PENDING; else decrypted with the conversation key of the socket's peer,
\* which fails unless the sender is that peer, and emitted as 'message'
ReceiveData(w, sender) ==
    LET remotePubkey == sockets[w].remotePubkey
        rawString == nip44Encrypt(JsonStringify([type |-> "chat"]),
                                  getConversationKey(SecretKey(sender), Identity))
        decrypted == nip44Decrypt(rawString,
                                  getConversationKey(SecretKey(Identity), remotePubkey))
    IN  /\ sockets[w].state = "open"
        /\ sockets[w].received < MaxData
        /\ sockets' = [sockets EXCEPT ![w].received = @ + 1]
        /\ emitted' =
               IF remotePubkey = "" THEN emitted
               ELSE IF remotePubkey \in DOMAIN peerStatus /\ peerStatus[remotePubkey] = PENDING
               THEN emitted
               ELSE IF decrypted = DecryptFailed
               THEN emitted
               ELSE Append(emitted, Event("message", remotePubkey, w, "message"))
        /\ UNCHANGED <<peers, peerStatus, acceptCalls, lastCall, libVars>>

\* The close handler: the socket has ended, by the far side or after
\* ws.close(); the peer named on this socket is removed from both maps
SocketCloses(w) ==
    LET remotePubkey == sockets[w].remotePubkey
    IN  /\ sockets[w].state \in {"open", "closing"}
        /\ sockets' = [sockets EXCEPT ![w].state = "closed"]
        /\ IF remotePubkey # ""
           THEN /\ peers' = MapDelete(peers, remotePubkey)
                /\ peerStatus' = MapDelete(peerStatus, remotePubkey)
                /\ emitted' = Append(emitted, Event("peer:disconnected", remotePubkey, w,
                                                    "close"))
           ELSE UNCHANGED <<peers, peerStatus, emitted>>
        /\ UNCHANGED <<acceptCalls, lastCall, libVars>>

\* acceptPeer(pubkey)
acceptPeer(pubkey) ==
    /\ peerStatus' = IF pubkey \in DOMAIN peers
                     THEN MapSet(peerStatus, pubkey, CONNECTED)
                     ELSE peerStatus
    /\ acceptCalls' = acceptCalls \cup {pubkey}
    /\ lastCall' = NodeCall("acceptPeer", pubkey, "returned")
    /\ UNCHANGED <<peers, sockets, emitted, libVars>>

\* A send guard that looks for the socket only
CanSendUnaccepted(targetPubkey) == targetPubkey \in DOMAIN peers

\* sendMessage reaches ws.send(ciphertext): a socket is registered and the
\* status is CONNECTED
CanSend(targetPubkey) ==
    /\ targetPubkey \in DOMAIN peers
    /\ targetPubkey \in DOMAIN peerStatus
    /\ peerStatus[targetPubkey] = CONNECTED

\* ws.send(ciphertext) on the sockets registered for `targets`
Written(targets) ==
    [w \in Sockets |->
        IF \E pk \in targets : peers[pk] = w
        THEN [sockets[w] EXCEPT !.sent = @ + 1]
        ELSE sockets[w]]

\* sendMessage(targetPubkey, type, payload)
sendMessage(targetPubkey) ==
    /\ CanSend(targetPubkey) => sockets[peers[targetPubkey]].sent < MaxSent
    /\ IF CanSend(targetPubkey)
       THEN /\ sockets' = Written({targetPubkey})
            /\ lastCall' = NodeCall("sendMessage", targetPubkey, "returned")
       ELSE /\ UNCHANGED sockets
            /\ lastCall' = NodeCall("sendMessage", targetPubkey, "thrown")
    /\ UNCHANGED <<peers, peerStatus, emitted, acceptCalls, libVars>>

\* broadcast(type, payload): sendMessage to every peer that is CONNECTED,
\* what it throws is swallowed
broadcast ==
    /\ \A pk \in DOMAIN peers : sockets[peers[pk]].sent < MaxSent
    /\ sockets' = Written({pk \in DOMAIN peers :
                              /\ pk \in DOMAIN peerStatus /\ peerStatus[pk] = CONNECTED
                              /\ CanSend(pk)})
    /\ lastCall' = NodeCall("broadcast", "", "returned")
    /\ UNCHANGED <<peers, peerStatus, emitted, acceptCalls, libVars>>

\* disconnectPeer(pubkey): ws.close(), both map entries deleted,
\* 'peer:disconnected' emitted; the socket's close event comes later
disconnectPeer(pubkey) ==
    /\ IF pubkey \in DOMAIN peers
       THEN /\ sockets' = [sockets EXCEPT ![peers[pubkey]].state =
                               IF @ = "open" THEN "closing" ELSE @]
            /\ peers' = MapDelete(peers, pubkey)
            /\ peerStatus' = MapDelete(peerStatus, pubkey)
            /\ emitted' = Append(emitted, Event("peer:disconnected", pubkey,
                                                peers[pubkey], "disconnectPeer"))
       ELSE UNCHANGED <<peers, peerStatus, sockets, emitted>>
    /\ UNCHANGED <<acceptCalls, lastCall, libVars>>

IncomingStep == \E w \in Sockets : IncomingConnection(w)
ConnectStep == \E w \in Sockets, pk \in PeerKeys : ConnectToPeer(w, pk)
HandshakeStep == \E w \in Sockets, pk \in PeerKeys \cup {Identity} : ReceiveHandshake(w, pk)
DataStep == \E w \in Sockets, sender \in PeerKeys : ReceiveData(w, sender)
CloseStep == \E w \in Sockets : SocketCloses(w)
AcceptPeerStep == \E pk \in PeerKeys : acceptPeer(pk)
SendStep == \E pk \in PeerKeys : sendMessage(pk)
DisconnectStep == \E pk \in PeerKeys : disconnectPeer(pk)

NextNode ==
    \/ IncomingStep
    \/ ConnectStep
    \/ HandshakeStep
    \/ DataStep
    \/ CloseStep
    \/ AcceptPeerStep
    \/ DisconnectStep

SpecNode == Init /\ [][NextNode]_vars

\* SpecSend: the same node with sendMessage and broadcast called on it and
\* no data arriving
NextSend ==
    \/ IncomingStep
    \/ ConnectStep
    \/ HandshakeStep
    \/ CloseStep
    \/ AcceptPeerStep
    \/ SendStep
    \/ broadcast
    \/ DisconnectStep

SpecSend == Init /\ [][NextSend]_vars

-----------------------------------------------------------------------------
(* Claims checked under SpecNode *)

\* The event a step emitted, if it emitted one
Emits(name) ==
    /\ Len(emitted') = Len(emitted) + 1
    /\ emitted'[Len(emitted')].name = name

LastEmitted == emitted'[Len(emitted')]

\* A data frame arrived on socket w in this step
DataArrives(w) == sockets'[w].received = sockets[w].received + 1

\* Socket w ended in this step
Closes(w) == sockets[w].state \in {"open", "closing"} /\ sockets'[w].state = "closed"

\* C36 (pending gate), as claimed: a 'message' is emitted for a socket that
\* came in through the server only if acceptPeer has been called with the
\* pubkey the socket's handshake announced; a data frame that arrives on a
\* socket with no handshake yet, or whose peer is PENDING, emits nothing,
\* and a 'message' is emitted only in the step its data frame arrives in.
C36_PendingGate ==
    [][/\ Emits("message") /\ sockets[LastEmitted.socket].isIncoming
          => LastEmitted.pubkey \in acceptCalls
       /\ \A w \in Sockets :
             (/\ DataArrives(w)
              /\ \/ sockets[w].remotePubkey = ""
                 \/ /\ sockets[w].remotePubkey \in DOMAIN peerStatus
                    /\ peerStatus[sockets[w].remotePubkey] = PENDING)
             => emitted' = emitted
       /\ Emits("message") => DataArrives(LastEmitted.socket)]_vars

\* C38 (an accepted peer is stable), as claimed: a peer that is CONNECTED
\* stays CONNECTED on the same socket through every step in which that
\* socket does not close and disconnectPeer is not called for the peer.
C38_AcceptedPeerStable ==
    [][\A pk \in PeerKeys :
          (/\ pk \in DOMAIN peers
           /\ pk \in DOMAIN peerStatus
           /\ peerStatus[pk] = CONNECTED
           /\ ~Closes(peers[pk])
           /\ ~(Emits("peer:disconnected") /\ LastEmitted.by = "disconnectPeer"
                                           /\ LastEmitted.pubkey = pk))
          => /\ pk \in DOMAIN peers' /\ peers'[pk] = peers[pk]
             /\ pk \in DOMAIN peerStatus' /\ peerStatus'[pk] = CONNECTED]_vars

\* C39 (stale close), as claimed: when a socket closes whose peer has been
\* registered again with another socket, both maps stay as they are and
\* nothing is emitted.
C39_StaleClose ==
    [][\A w \in Sockets :
          (/\ Closes(w)
           /\ sockets[w].remotePubkey \in DOMAIN peers
           /\ peers[sockets[w].remotePubkey] # w)
          => /\ peers' = peers
             /\ peerStatus' = peerStatus
             /\ emitted' = emitted]_vars

\* The 'peer:disconnected' events emitted for the connection on socket w
Disconnections(w) ==
    {i \in 1..Len(emitted) :
        emitted[i].name = "peer:disconnected" /\ emitted[i].socket = w}

\* C40 (single disconnect notification), as claimed: for a socket that was
\* registered for a peer, 'peer:disconnected' has been emitted at most once,
\* and exactly once when the socket has closed or disconnectPeer was called.
C40_SingleDisconnect ==
    \A w \in Sockets :
        /\ Cardinality(Disconnections(w)) <= 1
        /\ (sockets[w].state = "closed" /\ sockets[w].remotePubkey # "")
           => Cardinality(Disconnections(w)) = 1

-----------------------------------------------------------------------------
(* Claims checked under SpecSend *)

\* A call was made on the node in this step: lastCall changed, or a frame
\* was written to a socket that was open before
Writes(w) == sockets[w].state # "none" /\ sockets'[w].sent # sockets[w].sent

\* C37 (send guard): a sendMessage to a pubkey with no registered socket or
\* with a status other than CONNECTED throws and writes to no socket; a frame
\* is written to a socket only by a sendMessage to, or a broadcast with, a
\* CONNECTED peer registered on it; an acceptPeer for a pubkey with no
\* registered socket changes nothing of the node.
C37_SendGuard ==
    [][/\ (lastCall' # lastCall /\ lastCall'.name = "sendMessage"
           /\ ~(/\ lastCall'.pubkey \in DOMAIN peers
                /\ lastCall'.pubkey \in DOMAIN peerStatus
                /\ peerStatus[lastCall'.pubkey] = CONNECTED))
          => /\ lastCall'.ended = "thrown"
             /\ \A w \in Sockets : sockets'[w].sent = sockets[w].sent
       /\ \A w \in Sockets :
             Writes(w)
             => /\ lastCall'.name \in {"sendMessage", "broadcast"}
                /\ \E pk \in DOMAIN peers :
                       /\ peers[pk] = w
                       /\ pk \in DOMAIN peerStatus /\ peerStatus[pk] = CONNECTED
                       /\ lastCall'.name = "sendMessage" => lastCall'.pubkey = pk
       /\ (lastCall' # lastCall /\ lastCall'.name = "acceptPeer"
           /\ lastCall'.pubkey \notin DOMAIN peers)
          => UNCHANGED <<peers, peerStatus, sockets, emitted>>]_vars

\* C37 witness: X came in and is PENDING, Y was connected to; a sendMessage
\* to X has thrown after a broadcast went out, and the socket of X holds
\* the handshake only while that of Y holds a second frame
C37_Witness ==
    /\ lastCall = NodeCall("sendMessage", "X", "thrown")
    /\ "X" \in DOMAIN peers /\ peerStatus["X"] = PENDING
    /\ "Y" \in DOMAIN peers /\ peerStatus["Y"] = CONNECTED
    /\ sockets[peers["X"]].sent = 1
    /\ sockets[peers["Y"]].sent = 2

====
